---- MODULE Spec2Model ----
(***************************************************************************)
(* Model of pre-push.                                                      *)
(*                                                                         *)
(* Spec, SpecCancel: the stage execution engine                            *)
(* (internal/exec/executor.go): RunStage, buildDAG, detectCycles and the   *)
(* concurrent scheduler executeDAGWithStreaming with its result-handler    *)
(* goroutine, its action tasks and the declaration-order display.          *)
(* SpecHook: runGitHook, the classification of a push (cmd/pre-push).      *)
(* SpecInstall: the installation of .git/hooks/pre-push.                   *)
(* SpecResolve, SpecResolveFair: resolveString, variable interpolation.    *)
(* SpecFair: the stage execution engine under fair scheduling.             *)
(* SpecValidate: Config.Validate (pkg/prepush).                            *)
(* SpecGraph: buildDAG, detectCycles and topologicalSort on their own.     *)
(* SpecUses: the engine on stages whose actions are built-in or custom.    *)
(* SpecReport: the success of a stage and PrintSummary's verdict line.     *)
(* SpecMain: main's choice between hook mode and the CLI commands.         *)
(* SpecManifest: config.ResolveVariables over the manifest's actions.      *)
(* SpecVerbose: getVerboseLevel.                                           *)
(*                                                                         *)
(* A step is named by its position in the stage (step i references action  *)
(* i): the stage declares each action at most once.  Step.Require is kept  *)
(* as a set; the loops over it do not depend on its order.                 *)
(***************************************************************************)
EXTENDS Integers, Sequences, FiniteSets, TLC

\* Number of steps declared in the stage.
NSteps == 3
\* Largest number of require entries of one step.
MaxRequire == 2

Names == 1..NSteps
\* A require entry that names no step of the stage.
Dangling == NSteps + 1
Refs == Names \cup {Dangling}

StatusOK == "OK"
StatusWarn == "WARN"
StatusError == "ERROR"
StatusSkipped == "SKIPPED"

MsgDependencyFailed == "skipped (dependency failed)"
MsgConditionNotMet == "skipped (condition not met)"
MsgExecuted == "command executed successfully"
MsgCommandFailed == "Command failed. To debug run: <run>"

IfNone == ""
IfRelease == "version.type == 'release'"
IfPrerelease == "version.type == 'prerelease'"
IfOther == "branch == 'main'"

\* What getVersionType can return: a version kind, or "" with an error.
VersionTypeError == ""
VersionTypes == {"release", "prerelease", VersionTypeError}

VARIABLES
    steps,        \* stage.Steps: sequence of Step records (declaration order)
    nodeAction,   \* node.Action: the Action of e.config each step references
    versionType,  \* outcome of getVersionType in this repository state
    pc,           \* position of the main goroutine in RunStage
    dag,          \* map[string]*DAGNode built by buildDAG (<<>> while nil)
    runErr,       \* error returned by RunStage ("unset" until it returns)
    readySteps,   \* the part of readySteps the wave loop has not iterated yet
    nodeName,     \* loop variable of the wave loop (0 outside the loop body)
    completed, failed, displayed, executing,   \* map[string]bool
    resultMap,    \* map[string]prepush.Result (NoResult while absent)
    results,      \* []prepush.Result in the order the handler appended them
    resultChan,   \* buffered channel of Results
    closed,       \* resultChan has been closed
    wg,           \* names of the spawned tasks that have not called wg.Done
    hpc,          \* position of the result-handler goroutine
    result,       \* the Result the handler goroutine is processing
    printed,      \* the calls of ui.PrintStepStatus, in order
    ran,          \* names of the steps whose action was given to executeAction
    success,      \* argument of ui.PrintStageResult ("unset" until called)
    summary,      \* argument of ui.PrintSummary ("unset" until called)
    cancelled     \* the ctx given to RunStage is done (signal or parent cancel)

\* The state of one RunStage call.
stageVars == <<steps, nodeAction, versionType, pc, dag, runErr, readySteps, nodeName,
               completed, failed, displayed, executing, resultMap, results, resultChan,
               closed, wg, hpc, result, printed, ran, success, summary>>

VARIABLES
    stdin,         \* the lines Git writes to the hook's standard input
    argc,          \* len(os.Args) of the hook process
    currentTag,    \* outcome of getCurrentTag() in this repository
    currentBranch, \* outcome of getCurrentBranch() in this repository
    hookPc,        \* position of runGitHook
    lineNo,        \* number of stdin lines the scanner has delivered
    refs,          \* []GitRef collected by readGitRefs
    pushInfo,      \* *GitPushInfo built by parseGitPushInfo
    hookErr,       \* error returned by runGitHook ("unset" until it returns)
    calls          \* the functions runGitHook has called so far

\* The state of one runGitHook call.
hookVars == <<stdin, argc, currentTag, currentBranch, hookPc, lineNo, refs,
              pushInfo, hookErr, calls>>

NoPushInfo ==
    [RemoteName |-> "", RemoteURL |-> "", Tags |-> << >>, Branches |-> << >>,
     IsDelete |-> FALSE]

\* The process is not running as a Git hook.
HookIdle ==
    /\ stdin = << >>
    /\ argc = 0
    /\ currentTag = [err |-> TRUE, out |-> << >>]
    /\ currentBranch = [err |-> TRUE, out |-> << >>]
    /\ hookPc = "none"
    /\ lineNo = 0
    /\ refs = << >>
    /\ pushInfo = NoPushInfo
    /\ hookErr = "unset"
    /\ calls = {}

VARIABLES
    binary,    \* content of the running executable (os.Executable())
    hookFile,  \* .git/hooks/pre-push: its content and mode, or Missing
    inRepo,    \* the working directory is inside a Git repository
    impl,      \* which install code the binary carries
    installs   \* the install operations performed so far, in order

installVars == <<binary, hookFile, inRepo, impl, installs>>

Missing == [exists |-> FALSE, content |-> "", mode |-> {}]

\* No install operation is involved.
InstallIdle ==
    /\ binary = ""
    /\ hookFile = Missing
    /\ inRepo = FALSE
    /\ impl = "none"
    /\ installs = << >>

VARIABLES
    inputString,    \* the argument s of resolveString
    variables,      \* the argument variables of resolveString (map[string]string)
    resolvePc,      \* position of resolveString
    resolveResult,  \* its local variable result
    resolveErr      \* the error it returns ("unset" until it returns)

resolveVars == <<inputString, variables, resolvePc, resolveResult, resolveErr>>

\* resolveString is not being called.
ResolveIdle ==
    /\ inputString = << >>
    /\ variables = << >>
    /\ resolvePc = "none"
    /\ resolveResult = << >>
    /\ resolveErr = "unset"

VARIABLES
    config,       \* the receiver c of Config.Validate
    validateErr   \* the error it returns ("unset" until it returns)

validateVars == <<config, validateErr>>

NoConfig == [Project |-> [Name |-> ""], Actions |-> << >>, Stages |-> << >>]

\* Config.Validate is not being called.
ValidateIdle ==
    /\ config = NoConfig
    /\ validateErr = "unset"

VARIABLES
    graphSteps,    \* the argument steps of buildDAG (stage.Steps)
    graphActions,  \* the names of the actions of e.config
    graphPc,       \* position in buildDAG and topologicalSort
    graph,         \* the local variable dag of buildDAG
    graphErr,      \* the error of buildDAG ("unset" until known, "nil" for none)
    cycleNode,     \* the node named in the error of detectCycles ("" while none)
    sorted         \* the slice returned by topologicalSort

graphVars == <<graphSteps, graphActions, graphPc, graph, graphErr, cycleNode, sorted>>

\* buildDAG and topologicalSort are not being called on their own.
GraphIdle ==
    /\ graphSteps = << >>
    /\ graphActions = {}
    /\ graphPc = "none"
    /\ graph = << >>
    /\ graphErr = "unset"
    /\ cycleNode = ""
    /\ sorted = << >>

VARIABLES
    reportResults,  \* the results RunStage reports (argument of PrintSummary)
    reportSuccess,  \* RunStage's local variable success ("unset" until computed)
    counts,         \* okCount, warnCount, errorCount, skippedCount of PrintSummary
    verdict         \* the verdict line PrintSummary printed ("" until printed)

reportVars == <<reportResults, reportSuccess, counts, verdict>>

NoCounts == [ok |-> 0, warn |-> 0, error |-> 0, skipped |-> 0]

\* The end of RunStage is not being run on its own.
ReportIdle ==
    /\ reportResults = << >>
    /\ reportSuccess = "unset"
    /\ counts = NoCounts
    /\ verdict = ""

VARIABLES
    firstArg,   \* os.Args[1] of the process (NoArg when len(os.Args) is 1)
    stdinMode,  \* what the standard input of the process is
    mainPc      \* position of main

mainVars == <<firstArg, stdinMode, mainPc>>

NoArg == ""

\* main is not being run from its start.
MainIdle ==
    /\ firstArg = NoArg
    /\ stdinMode = ""
    /\ mainPc = "none"

VARIABLES
    runs,        \* config.Actions[i].Run of the manifest given to ResolveVariables
    runsAtCall,  \* the same strings as they were when ResolveVariables was called
    actionIndex, \* the loop variable i of ResolveVariables (from 1)
    resolveVariablesErr  \* the error it returns ("unset" until it returns)

manifestVars == <<runs, runsAtCall, actionIndex, resolveVariablesErr>>

\* ResolveVariables is not being called.
ManifestIdle ==
    /\ runs = << >>
    /\ runsAtCall = << >>
    /\ actionIndex = 0
    /\ resolveVariablesErr = "unset"

VARIABLES
    envVerbose,   \* os.Getenv("PRE_PUSH_VERBOSE"): "" when unset or empty
    verbose,      \* the package variable the -v / --verbose flag sets
    verboseLevel  \* the value getVerboseLevel returned (<< >> until it returns)

verboseVars == <<envVerbose, verbose, verboseLevel>>

\* getVerboseLevel is not being called.
VerboseIdle ==
    /\ envVerbose = << >>
    /\ verbose = FALSE
    /\ verboseLevel = << >>

\* The state of the command's entry point and of the calls of single
\* functions of the command, the config package and the ui.
cliVars == <<reportVars, mainVars, manifestVars, verboseVars>>

CliIdle == ReportIdle /\ MainIdle /\ ManifestIdle /\ VerboseIdle

\* The state of the calls of single functions of the packages.
unitVars == <<validateVars, graphVars, cliVars>>

UnitIdle == ValidateIdle /\ GraphIdle /\ CliIdle

\* What a RunStage call does not write.
outside == <<cancelled, hookVars, installVars, resolveVars, unitVars>>

vars == <<stageVars, outside>>

NoResult == [Name |-> 0, Status |-> "", Message |-> ""]
NilDAG == << >>

----------------------------------------------------------------------------
(* Pure helpers of executor.go *)

Min(S) == CHOOSE x \in S : \A y \in S : x <= y

\* The elements of a set of numbers in ascending order.
RECURSIVE SortedSeq(_)
SortedSeq(S) == IF S = {} THEN << >> ELSE <<Min(S)>> \o SortedSeq(S \ {Min(S)})

\* All orders in which a range over the map with key set S can visit it.
Orders(S) == {o \in [1..Cardinality(S) -> S] : \A i, j \in DOMAIN o : i # j => o[i] # o[j]}

\* depNode.Dependents of buildDAG's second loop.
DependentsOf(st, u) == {v \in DOMAIN st : u \in st[v].Require}

\* Config.GetAction for the action of a step: the manifest declares the
\* actions 1..NSteps, so every step's action exists.
ActionExists(a) == a \in Names

\* detectCycles: depth-first search along Dependencies with visited/recStack.
RECURSIVE dfs(_, _, _, _)
RECURSIVE dfsDeps(_, _, _, _)
\* dfs with the visited test placed before the recStack test.
dfsVisitedFirst(d, n, visited, recStack) ==
    IF n \in visited THEN [err |-> FALSE, node |-> 0, visited |-> visited]
    ELSE IF n \in recStack THEN [err |-> TRUE, node |-> n, visited |-> visited]
    ELSE dfsDeps(d, SortedSeq(d[n].Dependencies), visited \cup {n}, recStack \cup {n})
dfs(d, n, visited, recStack) ==
    IF n \in recStack THEN [err |-> TRUE, node |-> n, visited |-> visited]
    ELSE IF n \in visited THEN [err |-> FALSE, node |-> 0, visited |-> visited]
    ELSE dfsDeps(d, SortedSeq(d[n].Dependencies), visited \cup {n}, recStack \cup {n})
dfsDeps(d, deps, visited, recStack) ==
    IF deps = << >> THEN [err |-> FALSE, node |-> 0, visited |-> visited]
    ELSE LET r == dfs(d, Head(deps), visited, recStack)
         IN  IF r.err THEN r ELSE dfsDeps(d, Tail(deps), r.visited, recStack)

RECURSIVE detectLoop(_, _, _)
detectLoop(d, order, visited) ==
    IF order = << >> THEN [err |-> FALSE, node |-> 0]
    ELSE IF Head(order) \in visited THEN detectLoop(d, Tail(order), visited)
    ELSE LET r == dfs(d, Head(order), visited, {})
         IN  IF r.err THEN [err |-> TRUE, node |-> r.node]
             ELSE detectLoop(d, Tail(order), r.visited)

detectCycles(d, order) == detectLoop(d, order, {})

\* buildDAG: nodes, dependency relationships, cycle check.  order is the
\* iteration order of the range over the dag map in detectCycles.
buildDAG(st, order) ==
    LET nodes == [n \in DOMAIN st |->
                    [Step |-> st[n], Dependencies |-> st[n].Require,
                     Dependents |-> DependentsOf(st, n)]]
    IN  IF \E n \in DOMAIN st : ~ActionExists(st[n].Action)
          THEN [dag |-> NilDAG, err |-> "action not found"]
        ELSE IF \E n \in DOMAIN st : \E dep \in st[n].Require : dep \notin DOMAIN st
          THEN [dag |-> NilDAG, err |-> "dependency not found"]
        ELSE IF detectCycles(nodes, order).err
          THEN [dag |-> NilDAG, err |-> "circular dependency detected"]
        ELSE [dag |-> nodes, err |-> "nil"]

\* The map iteration orders that can matter to buildDAG: the cycle check is
\* reached only when every require entry names a step.
MapOrders(st) ==
    IF \E n \in DOMAIN st : \E dep \in st[n].Require : dep \notin DOMAIN st
      THEN {SortedSeq(DOMAIN st)}
      ELSE Orders(DOMAIN st)

\* allDependenciesCompleted answering true as soon as one dependency is completed.
allDependenciesCompletedAny(node, comp) ==
    node.Dependencies = {} \/ \E dep \in node.Dependencies : comp[dep]
allDependenciesCompleted(node, comp) == \A dep \in node.Dependencies : comp[dep]

hasFailedDependency(node, fl) == \E dep \in node.Dependencies : fl[dep]

\* getReadyStepsLocked passing over the completed nodes only.
getReadyStepsLockedCompletedOnly(d, comp, fl, exe) ==
    {n \in DOMAIN d : ~comp[n] /\ allDependenciesCompleted(d[n], comp)}
getReadyStepsLocked(d, comp, fl, exe) ==
    {n \in DOMAIN d : ~(comp[n] \/ exe[n]) /\ allDependenciesCompleted(d[n], comp)}

evaluateCondition(condition, vt) ==
    IF condition = IfRelease THEN vt # VersionTypeError /\ vt = "release"
    ELSE IF condition = IfPrerelease THEN vt # VersionTypeError /\ vt = "prerelease"
    ELSE TRUE

matchesOnlyConditions(onlyConditions, vt) ==
    IF vt = VersionTypeError THEN FALSE ELSE vt \in onlyConditions

\* shouldExecuteStep without the check of the only conditions.
shouldExecuteStepIfOnly(node, vt) ==
    node.Step.If # IfNone => evaluateCondition(node.Step.If, vt)
shouldExecuteStep(node, vt) ==
    /\ (node.Step.If # IfNone => evaluateCondition(node.Step.If, vt))
    /\ (node.Step.Only # {} => matchesOnlyConditions(node.Step.Only, vt))

\* getVersionType(ctx): DetectCurrentVersion runs git with
\* exec.CommandContext(ctx, ...), so it returns an error once ctx is done.
getVersionType == IF cancelled THEN VersionTypeError ELSE versionType

hasErrors(rs) == \E i \in DOMAIN rs : rs[i].Status = StatusError

canDisplayStepImmediately(stepIndex, comp) == \A i \in 1..(stepIndex - 1) : comp[i]

\* displayRemainingSteps: the PrintStepStatus calls it makes, in order.
RECURSIVE remainingCalls(_, _, _)
remainingCalls(i, rm, disp) ==
    IF i > NSteps THEN << >>
    ELSE IF ~disp[i] /\ rm[i] # NoResult
      THEN <<rm[i]>> \o remainingCalls(i + 1, rm, disp)
      ELSE remainingCalls(i + 1, rm, disp)

----------------------------------------------------------------------------
(* The stages and repository states the runs start from *)

RequireSets == {S \in SUBSET Refs : Cardinality(S) <= MaxRequire}

Stage(rq, oe, g) ==
    [i \in Names |-> [Action |-> i, Require |-> rq[i], OnError |-> oe[i],
                      If |-> g[i].If, Only |-> g[i].Only]]

NoGate == [If |-> IfNone, Only |-> {}]

\* Stages with any require relation (cycles, self-requires and dangling
\* entries included) whose steps have the default on_error and no gate.
PlainStages ==
    {Stage(rq, [n \in Names |-> "stop"], [n \in Names |-> NoGate]) :
        rq \in [Names -> RequireSets]}

\* The built-in actions uses.New() registers.
Registry == {"git@untracked", "git@uncommitted", "git@modified"}

\* A manifest whose actions all have a run command.
CustomActions == [n \in Names |-> [Uses |-> "", Run |-> "make test"]]

\* The on_error / if / only settings a step can carry besides the default.
Profiles ==
    { [OnError |-> "warn", If |-> IfNone, Only |-> {}],
      [OnError |-> "stop", If |-> IfRelease, Only |-> {}],
      [OnError |-> "stop", If |-> IfPrerelease, Only |-> {}],
      [OnError |-> "stop", If |-> IfOther, Only |-> {}],
      [OnError |-> "stop", If |-> IfNone, Only |-> {"release"}],
      [OnError |-> "stop", If |-> IfNone, Only |-> {"prerelease", "patch"}] }

\* Require relations in which a step requires at most the step declared
\* right before it.
ChainRequires == {rq \in [Names -> SUBSET Names] : \A v \in Names : rq[v] \subseteq {v - 1}}

\* Stages over a chain relation in which one step carries a profile.
ProfiledStages ==
    {Stage(rq,
           [n \in Names |-> IF n = s THEN p.OnError ELSE "stop"],
           [n \in Names |-> IF n = s THEN [If |-> p.If, Only |-> p.Only] ELSE NoGate]) :
        rq \in ChainRequires, s \in Names, p \in Profiles}

InitRun ==
    /\ pc = "RunStage"
    /\ dag = NilDAG
    /\ runErr = "unset"
    /\ readySteps = {}
    /\ nodeName = 0
    /\ completed = [n \in Names |-> FALSE]
    /\ failed = [n \in Names |-> FALSE]
    /\ displayed = [n \in Names |-> FALSE]
    /\ executing = [n \in Names |-> FALSE]
    /\ resultMap = [n \in Names |-> NoResult]
    /\ results = << >>
    /\ resultChan = << >>
    /\ closed = FALSE
    /\ wg = {}
    /\ hpc = "none"
    /\ result = NoResult
    /\ printed = << >>
    /\ ran = {}
    /\ success = "unset"
    /\ summary = "unset"

\* A run whose context is never cancelled.
Init ==
    /\ \/ steps \in PlainStages /\ versionType = "release"
       \/ steps \in ProfiledStages /\ versionType \in VersionTypes
    /\ nodeAction = CustomActions
    /\ InitRun
    /\ cancelled = FALSE
    /\ HookIdle
    /\ InstallIdle
    /\ ResolveIdle
    /\ UnitIdle

----------------------------------------------------------------------------
(* RunStage up to the scheduler *)

\* RunStage: dag, err := buildDAG(stage.Steps).  On an error RunStage returns
\* it; otherwise executeDAGWithStreaming starts the result-handler goroutine
\* and enters the wave loop.
BuildDAG ==
    /\ pc = "RunStage"
    /\ \E r \in {buildDAG(steps, order) : order \in MapOrders(steps)} :
          IF r.err # "nil"
            THEN /\ runErr' = r.err
                 /\ pc' = "done"
                 /\ UNCHANGED <<dag, hpc>>
            ELSE /\ dag' = r.dag
                 /\ pc' = "loop"
                 /\ hpc' = "recv"
                 /\ UNCHANGED runErr
    /\ UNCHANGED <<outside, steps, nodeAction, versionType, readySteps, nodeName,
                   completed, failed, displayed, executing, resultMap, results, resultChan,
                   closed, wg, result, printed, ran, success, summary>>

----------------------------------------------------------------------------
(* executeDAGWithStreaming: the main goroutine *)

\* The scheduler mutex is held by the handler goroutine between its Lock and
\* Unlock; the critical sections of the main goroutine are single steps.
MuFree == hpc # "locked"

\* cap(resultChan) = len(dag)
ChanHasRoom == Len(resultChan) < Cardinality(DOMAIN dag)

\* mu.Lock(); readySteps := getReadyStepsLocked(...); mu.Unlock(); break if empty
GetReadySteps ==
    /\ pc = "loop"
    /\ MuFree
    /\ LET ready == getReadyStepsLocked(dag, completed, failed, executing)
       IN  /\ readySteps' = ready
           /\ pc' = IF ready = {} THEN "close" ELSE "range"
    /\ UNCHANGED <<outside, steps, nodeAction, versionType, dag, runErr, nodeName,
                   completed, failed, displayed, executing, resultMap, results, resultChan,
                   closed, wg, hpc, result, printed, ran, success, summary>>

\* for _, nodeName := range readySteps { mu.Lock(); executing[nodeName] = true; mu.Unlock()
MarkExecuting ==
    /\ pc = "range"
    /\ MuFree
    /\ \E n \in readySteps :
          /\ nodeName' = n
          /\ readySteps' = readySteps \ {n}
          /\ executing' = [executing EXCEPT ![n] = TRUE]
    /\ pc' = "decide"
    /\ UNCHANGED <<outside, steps, nodeAction, versionType, dag, runErr, completed, failed,
                   displayed, resultMap, results, resultChan, closed, wg, hpc, result,
                   printed, ran, success, summary>>

\* hasFailedDependency(node, failed) reads the map failed without the mutex.
\* The read races with the handler's write failed[result.Name] = true when the
\* handler is inside its critical section with an ERROR result.
FailedReadRaces ==
    /\ dag[nodeName].Dependencies # {}
    /\ hpc = "locked"
    /\ result.Status = StatusError

\* What the unsynchronised read can yield: the value hasFailedDependency
\* computes from the map, or, in a race, a lookup that misses the entries.
FailedReads ==
    {hasFailedDependency(dag[nodeName], failed)} \cup (IF FailedReadRaces THEN {FALSE} ELSE {})

\* the failed-dependency branch: a SKIPPED Result is sent, no task is spawned
SkipFailedDependency ==
    /\ pc = "decide"
    /\ TRUE \in FailedReads
    /\ ChanHasRoom
    /\ resultChan' = Append(resultChan, [Name |-> nodeName, Status |-> StatusSkipped,
                                          Message |-> MsgDependencyFailed])
    /\ pc' = "range"
    /\ nodeName' = 0
    /\ UNCHANGED <<outside, steps, nodeAction, versionType, dag, runErr, readySteps,
                   completed, failed, displayed, executing, resultMap, results, closed, wg,
                   hpc, result, printed, ran, success, summary>>

\* the condition branch: shouldExecuteStep is false
SkipConditionNotMet ==
    /\ pc = "decide"
    /\ FALSE \in FailedReads
    /\ ~shouldExecuteStep(dag[nodeName], getVersionType)
    /\ ChanHasRoom
    /\ resultChan' = Append(resultChan, [Name |-> nodeName, Status |-> StatusOK,
                                          Message |-> MsgConditionNotMet])
    /\ pc' = "range"
    /\ nodeName' = 0
    /\ UNCHANGED <<outside, steps, nodeAction, versionType, dag, runErr, readySteps,
                   completed, failed, displayed, executing, resultMap, results, closed, wg,
                   hpc, result, printed, ran, success, summary>>

\* wg.Add(1); go func(nodeName, node) {...}
SpawnTask ==
    /\ pc = "decide"
    /\ FALSE \in FailedReads
    /\ shouldExecuteStep(dag[nodeName], getVersionType)
    /\ wg' = wg \cup {nodeName}
    /\ pc' = "range"
    /\ nodeName' = 0
    /\ UNCHANGED <<outside, steps, nodeAction, versionType, dag, runErr, readySteps,
                   completed, failed, displayed, executing, resultMap, results, resultChan,
                   closed, hpc, result, printed, ran, success, summary>>

\* The Go runtime detects the concurrent map read and map write and ends the
\* process with a fatal error.
FatalConcurrentMapAccess ==
    /\ pc = "decide"
    /\ FailedReadRaces
    /\ pc' = "crashed"
    /\ UNCHANGED <<outside, steps, nodeAction, versionType, dag, runErr, readySteps,
                   nodeName, completed, failed, displayed, executing, resultMap, results,
                   resultChan, closed, wg, hpc, result, printed, ran, success, summary>>

\* end of the range: wg.Wait() returns when every task of the wave is done
WgWait ==
    /\ pc = "range"
    /\ readySteps = {}
    /\ wg = {}
    /\ pc' = "loop"
    /\ UNCHANGED <<outside, steps, nodeAction, versionType, dag, runErr, readySteps,
                   nodeName, completed, failed, displayed, executing, resultMap, results,
                   resultChan, closed, wg, hpc, result, printed, ran, success, summary>>

\* close(resultChan)
CloseResultChan ==
    /\ pc = "close"
    /\ closed' = TRUE
    /\ pc' = "join"
    /\ UNCHANGED <<outside, steps, nodeAction, versionType, dag, runErr, readySteps,
                   nodeName, completed, failed, displayed, executing, resultMap, results,
                   resultChan, wg, hpc, result, printed, ran, success, summary>>

\* displayRemainingSteps called right after close(resultChan), without <-done.
DisplayRemainingStepsNoJoin ==
    /\ pc = "join"
    /\ printed' = printed \o remainingCalls(1, resultMap, displayed)
    /\ displayed' = [n \in Names |-> displayed[n] \/ resultMap[n] # NoResult]
    /\ pc' = "return"
    /\ UNCHANGED <<outside, steps, nodeAction, versionType, dag, runErr, readySteps,
                   nodeName, completed, failed, executing, resultMap, results, resultChan,
                   closed, wg, hpc, result, ran, success, summary>>

\* <-done; displayRemainingSteps(steps, resultMap, displayed)
DisplayRemainingSteps ==
    /\ pc = "join"
    /\ hpc = "done"
    /\ printed' = printed \o remainingCalls(1, resultMap, displayed)
    /\ displayed' = [n \in Names |-> displayed[n] \/ resultMap[n] # NoResult]
    /\ pc' = "return"
    /\ UNCHANGED <<outside, steps, nodeAction, versionType, dag, runErr, readySteps,
                   nodeName, completed, failed, executing, resultMap, results, resultChan,
                   closed, wg, hpc, result, ran, success, summary>>

\* return results, nil; RunStage: success := err == nil && !hasErrors(results);
\* PrintStageResult; PrintSummary; return err
ReturnStage ==
    /\ pc = "return"
    /\ success' = ~hasErrors(results)
    /\ summary' = results
    /\ runErr' = "nil"
    /\ pc' = "done"
    /\ UNCHANGED <<outside, steps, nodeAction, versionType, dag, readySteps, nodeName,
                   completed, failed, displayed, executing, resultMap, results, resultChan,
                   closed, wg, hpc, result, printed, ran>>

----------------------------------------------------------------------------
(* The action tasks and the result-handler goroutine *)

\* What a runner or a run command can return: OK, or ERROR.  Every runner
\* starts its command with exec.CommandContext(ctx, ...), which fails once
\* ctx is done.
RunnerResults ==
    IF cancelled
      THEN { [Status |-> StatusError, Message |-> MsgCommandFailed] }
      ELSE { [Status |-> StatusOK, Message |-> MsgExecuted],
             [Status |-> StatusError, Message |-> MsgCommandFailed] }

MsgUnknownBuiltIn == "unknown built-in action: <uses>"
MsgNoRunCommand == "no run command specified"

executeCustomAction(action) ==
    IF action.Run = ""
      THEN { [Status |-> StatusError, Message |-> MsgNoRunCommand] }
      ELSE RunnerResults

executeBuiltInAction(action) ==
    IF action.Uses \notin Registry
      THEN { [Status |-> StatusError, Message |-> MsgUnknownBuiltIn] }
      ELSE RunnerResults

executeAction(action) ==
    IF action.Uses # "" THEN executeBuiltInAction(action) ELSE executeCustomAction(action)

\* go func: result, _ := executeAction(...); result.Name = nodeName;
\* resultChan <- result; wg.Done()
TaskRun(n) ==
    /\ pc # "crashed"
    /\ n \in wg
    /\ ChanHasRoom
    /\ \E r \in executeAction(nodeAction[n]) :
          resultChan' = Append(resultChan, [Name |-> n, Status |-> r.Status,
                                             Message |-> r.Message])
    /\ ran' = ran \cup {n}
    /\ wg' = wg \ {n}
    /\ UNCHANGED <<outside, steps, nodeAction, versionType, pc, dag, runErr, readySteps,
                   nodeName, completed, failed, displayed, executing, resultMap, results,
                   closed, hpc, result, printed, success, summary>>

\* for result := range resultChan { mu.Lock()
HandlerReceive ==
    /\ pc # "crashed"
    /\ hpc = "recv"
    /\ resultChan # << >>
    /\ result' = Head(resultChan)
    /\ resultChan' = Tail(resultChan)
    /\ hpc' = "locked"
    /\ UNCHANGED <<outside, steps, nodeAction, versionType, pc, dag, runErr, readySteps,
                   nodeName, completed, failed, displayed, executing, resultMap, results,
                   closed, wg, printed, ran, success, summary>>

\* results = append(...); resultMap, completed, executing, failed; mu.Unlock()
HandlerUpdate ==
    /\ pc # "crashed"
    /\ hpc = "locked"
    /\ results' = Append(results, result)
    /\ resultMap' = [resultMap EXCEPT ![result.Name] = result]
    /\ completed' = [completed EXCEPT ![result.Name] = TRUE]
    /\ executing' = [executing EXCEPT ![result.Name] = FALSE]
    /\ failed' = IF result.Status = StatusError
                   THEN [failed EXCEPT ![result.Name] = TRUE] ELSE failed
    /\ hpc' = "display"
    /\ UNCHANGED <<outside, steps, nodeAction, versionType, pc, dag, runErr, readySteps,
                   nodeName, displayed, resultChan, closed, wg, result, printed, ran,
                   success, summary>>

\* displayStepImmediately(result.Name, steps, resultMap, displayed, completed)
HandlerDisplay ==
    /\ pc # "crashed"
    /\ hpc = "display"
    /\ IF canDisplayStepImmediately(result.Name, completed) /\ resultMap[result.Name] # NoResult
         THEN /\ printed' = Append(printed, resultMap[result.Name])
              /\ displayed' = [displayed EXCEPT ![result.Name] = TRUE]
         ELSE UNCHANGED <<printed, displayed>>
    /\ hpc' = "recv"
    /\ result' = NoResult
    /\ UNCHANGED <<outside, steps, nodeAction, versionType, pc, dag, runErr, readySteps,
                   nodeName, completed, failed, executing, resultMap, results, resultChan,
                   closed, wg, ran, success, summary>>

\* the range over the closed, drained channel ends: defer close(done)
HandlerExit ==
    /\ pc # "crashed"
    /\ hpc = "recv"
    /\ resultChan = << >>
    /\ closed
    /\ hpc' = "done"
    /\ UNCHANGED <<outside, steps, nodeAction, versionType, pc, dag, runErr, readySteps,
                   nodeName, completed, failed, displayed, executing, resultMap, results,
                   resultChan, closed, wg, result, printed, ran, success, summary>>

Next ==
    \/ BuildDAG
    \/ GetReadySteps
    \/ MarkExecuting
    \/ SkipFailedDependency
    \/ SkipConditionNotMet
    \/ SpawnTask
    \/ FatalConcurrentMapAccess
    \/ WgWait
    \/ CloseResultChan
    \/ DisplayRemainingSteps
    \/ ReturnStage
    \/ \E n \in Names : TaskRun(n)
    \/ HandlerReceive
    \/ HandlerUpdate
    \/ HandlerDisplay
    \/ HandlerExit

Spec == Init /\ [][Next]_vars

----------------------------------------------------------------------------
(* Cancellation of the context given to RunStage *)

\* signal.NotifyContext: SIGINT, SIGTERM or the parent cancels ctx while
\* RunStage is running.  The executor never reads ctx.Done(); ctx reaches
\* only the runners and the version detector.
Cancel ==
    /\ ~cancelled
    /\ pc \notin {"done", "crashed"}
    /\ cancelled' = TRUE
    /\ UNCHANGED <<stageVars, hookVars, installVars, resolveVars, unitVars>>

\* A run of a chain stage, one step carrying a profile, in a repository whose
\* version kind is prerelease; the context can be cancelled at any point.
InitCancel ==
    /\ steps \in ProfiledStages
    /\ nodeAction = CustomActions
    /\ versionType = "prerelease"
    /\ InitRun
    /\ cancelled = FALSE
    /\ HookIdle
    /\ InstallIdle
    /\ ResolveIdle
    /\ UnitIdle

NextCancel ==
    \/ Next
    \/ Cancel

SpecCancel == InitCancel /\ [][NextCancel]_vars

----------------------------------------------------------------------------
(* Vocabulary of the properties *)

\* buildDAG accepted the stage and the scheduler was entered.
Scheduled == DOMAIN dag # {}

\* executeDAGWithStreaming has returned and RunStage with it.
RunEnded == pc = "done" /\ Scheduled

\* The steps reachable from v along require edges, at any distance.
RECURSIVE Closure(_, _)
Closure(S, k) ==
    IF k = 0 THEN S
    ELSE Closure(S \cup {u \in Names : \E w \in S : u \in steps[w].Require}, k - 1)
Ancestors(v) == Closure(steps[v].Require \cap Names, NSteps)

HasCycle == \E v \in Names : v \in Ancestors(v)
HasDanglingRequire == \E v \in Names : ~(steps[v].Require \subseteq Names)

\* The positions of the Results recorded for step n.
ResultsOf(n) == {i \in DOMAIN results : results[i].Name = n}

\* u ended with Result ERROR and its on_error is stop.
ErrorWithStop(u) == resultMap[u].Status = StatusError /\ steps[u].OnError = "stop"

PrintedNames == [i \in DOMAIN printed |-> printed[i].Name]

\* Every Result of step n that exists anywhere: in flight on the channel, in
\* the hands of the handler, or recorded.
ResultsAnywhere(n) ==
      {resultChan[i] : i \in {j \in DOMAIN resultChan : resultChan[j].Name = n}}
 \cup {results[i] : i \in ResultsOf(n)}
 \cup (IF result.Name = n THEN {result} ELSE {})
 \cup (IF resultMap[n] # NoResult THEN {resultMap[n]} ELSE {})

----------------------------------------------------------------------------
(* Properties *)

\* C1 (completeness): when the run ends, every step of the stage has exactly
\* one Result, none missing and none duplicated.
C1_Completeness ==
    RunEnded => \A n \in Names : Cardinality(ResultsOf(n)) = 1

\* C2 (ordering invariant): the sequence of step names passed to
\* PrintStepStatus during a run is the declaration order of the steps that got
\* a Result; no status line comes before the line of an earlier-declared step.
C2_DisplayInDeclarationOrder ==
    /\ \A i, j \in DOMAIN printed : i < j => printed[i].Name < printed[j].Name
    /\ RunEnded => PrintedNames = SortedSeq({n \in Names : resultMap[n] # NoResult})

\* C3 (skip transitivity): a step with an ancestor at distance two or more
\* that ended ERROR under on_error stop never has its action executed, and a
\* Result it gets is SKIPPED, whatever the Results of the steps in between.
C3_SkipTransitive ==
    Scheduled =>
      \A v \in Names : \A u \in Ancestors(v) \ steps[v].Require :
         ErrorWithStop(u) =>
            /\ v \notin ran
            /\ resultMap[v] # NoResult => resultMap[v].Status = StatusSkipped

\* C4 (warn isolation): a step with on_error warn never gets the Result ERROR
\* and never enters failed; failed holds exactly the steps that ended ERROR
\* under on_error stop.
C4_WarnIsolation ==
    Scheduled =>
      /\ \A u \in Names : steps[u].OnError = "warn" =>
            resultMap[u].Status # StatusError /\ ~failed[u]
      /\ \A u \in Names : failed[u] <=> ErrorWithStop(u)

\* C5 (stage verdict): a run that was scheduled ends in failure (RunStage
\* returns a non-nil error, exit code 1) iff some Result is ERROR.
C5_FailureIffError ==
    RunEnded => (runErr # "nil" <=> hasErrors(results))

\* C6 (dependency respect): in every state, a step that has been marked
\* executing, whose task was spawned, whose action ran or that has a Result
\* has all its requires completed and none of them executing.
Started(v) == executing[v] \/ v \in wg \/ v \in ran \/ completed[v] \/ resultMap[v] # NoResult
C6_DependencyRespect ==
    \A v \in Names : Started(v) =>
       \A u \in steps[v].Require : completed[u] /\ ~executing[u]

\* C6 witness: the action of a step with two requires has run.
C6_Witness ==
    \E v \in Names : Cardinality(steps[v].Require) = 2 /\ v \in ran /\ completed[v]

\* C7 (direct dependent skip): when the run ends, every step that requires a
\* step that ended ERROR under on_error stop has the Result SKIPPED with the
\* message "skipped (dependency failed)", is completed and never ran.
C7_DirectDependentSkipped ==
    RunEnded =>
      \A v \in Names : \A u \in steps[v].Require :
         ErrorWithStop(u) =>
            /\ resultMap[v].Status = StatusSkipped
            /\ resultMap[v].Message = MsgDependencyFailed
            /\ completed[v]
            /\ v \notin ran

\* What the if/only gate of step n asks of the version kind, read from the
\* manifest: a version.type predicate names the kind, only lists the kinds.
GateMet(n) ==
    /\ steps[n].If = IfRelease => versionType = "release"
    /\ steps[n].If = IfPrerelease => versionType = "prerelease"
    /\ steps[n].Only # {} => versionType \in steps[n].Only

\* C8 (continuation on failure): when the run ends, every ungated step with
\* no ERROR-with-stop step among its ancestors was executed by the runner and
\* has the runner's Result.
C8_ContinuationOnFailure ==
    RunEnded =>
      \A v \in Names :
         (GateMet(v) /\ \A u \in Ancestors(v) : ~ErrorWithStop(u)) =>
            /\ v \in ran
            /\ resultMap[v].Status \in {StatusOK, StatusError}
            /\ resultMap[v].Message \in {MsgExecuted, MsgCommandFailed}

\* The steps the wave loop has decided: marked executing and past the
\* failed-dependency and condition branches.
Decided(n) == (executing[n] \/ completed[n] \/ ResultsAnywhere(n) # {}) /\ nodeName # n
NoFailedRequire(n) == \A dep \in steps[n].Require : ~failed[dep]

C10_InvalidGraphNeverRuns ==
    [][ /\ pc # "done"
        /\ (pc = "RunStage" /\ (HasCycle \/ HasDanglingRequire)) =>
              /\ pc' = "done"
              /\ dag' = NilDAG
              /\ runErr' \in {"dependency not found", "circular dependency detected"}
              /\ HasDanglingRequire => runErr' = "dependency not found"
              /\ wg' = {} /\ ran' = {} /\ hpc' = "none"
              /\ results' = << >> /\ resultChan' = << >> /\ printed' = << >>
              /\ \A n \in Names :
                    resultMap'[n] = NoResult /\ ~executing'[n] /\ ~completed'[n]
      ]_vars

\* C10 witness: RunStage has returned the cycle error for a cycle of length
\* two or more.
C10_Witness ==
    /\ pc = "done" /\ runErr = "circular dependency detected"
    /\ \E v \in Names : v \in Ancestors(v) /\ v \notin steps[v].Require

----------------------------------------------------------------------------
\* C11 - Cancellation: once the context is cancelled no new action task is
\* spawned, the Results already recorded are kept, and a run that ends after
\* the cancel ends with a non-nil error from RunStage.
C11_NoSpawnAfterCancel == cancelled => wg' \subseteq wg
C11_ResultsKept == cancelled => SubSeq(results', 1, Len(results)) = results
C11_EndsWithError == cancelled /\ Scheduled /\ pc # "done" /\ pc' = "done" => runErr' # "nil"
C11_Cancellation ==
    [][C11_NoSpawnAfterCancel /\ C11_ResultsKept /\ C11_EndsWithError]_vars

----------------------------------------------------------------------------
(* The Git hook entry point: runGitHook of cmd/pre-push/main.go              *)
(*                                                                           *)
(* A stdin line is the sequence of its tokens: fields and the runs of        *)
(* whitespace between them.  A field is a sequence of pieces: a ref is its   *)
(* prefix followed by the characters of the tag name, or by the branch name. *)

\* Largest number of lines on the hook's standard input.
MaxLines == 2

\* A run of whitespace.
SP == <<" ">>
EmptyLine == << >>
ZeroSHA == <<"0000000000000000000000000000000000000000">>
SomeSHA == <<"8c3f5a0e1b7d4c29a6f0e2d1b4c7a9e8f3d5b6c1">>
TagsPrefix == "refs/tags/"
HeadsPrefix == "refs/heads/"
Digits == {"0", "1", "2", "3", "4", "5", "6", "7", "8", "9"}

\* strings.HasPrefix, strings.TrimPrefix, strings.Fields
HasPrefix(s, prefix) == Len(s) >= 1 /\ s[1] = prefix
TrimPrefix(s, prefix) == IF HasPrefix(s, prefix) THEN Tail(s) ELSE s
Fields(line) == SelectSeq(line, LAMBDA t : t # SP)

NoRef == [LocalRef |-> << >>, LocalSHA |-> << >>, RemoteRef |-> << >>, RemoteSHA |-> << >>,
          IsDelete |-> FALSE, IsTag |-> FALSE, IsBranch |-> FALSE]

\* A parseGitRef that accepts a line with four fields or more.
parseGitRefAtLeastFour(line) ==
    LET parts == Fields(line)
    IN  IF Len(parts) < 4
          THEN [err |-> TRUE, ref |-> NoRef]
          ELSE [err |-> FALSE,
                ref |-> [LocalRef |-> parts[1], LocalSHA |-> parts[2],
                         RemoteRef |-> parts[3], RemoteSHA |-> parts[4],
                         IsDelete |-> parts[2] = ZeroSHA,
                         IsTag |-> HasPrefix(parts[1], TagsPrefix),
                         IsBranch |-> HasPrefix(parts[1], HeadsPrefix)]]
parseGitRef(line) ==
    LET parts == Fields(line)
    IN  IF Len(parts) # 4
          THEN [err |-> TRUE, ref |-> NoRef]
          ELSE [err |-> FALSE,
                ref |-> [LocalRef |-> parts[1], LocalSHA |-> parts[2],
                         RemoteRef |-> parts[3], RemoteSHA |-> parts[4],
                         IsDelete |-> parts[2] = ZeroSHA,
                         IsTag |-> HasPrefix(parts[1], TagsPrefix),
                         IsBranch |-> HasPrefix(parts[1], HeadsPrefix)]]

\* A scanner loop body that hands every line, empty ones too, to parseGitRef.
scanLineKeepEmpty(line, acc) ==
    LET r == parseGitRef(line)
    IN  IF r.err THEN [err |-> TRUE, refs |-> << >>]
                 ELSE [err |-> FALSE, refs |-> Append(acc, r.ref)]
\* readGitRefs, the body of the scanner loop: an empty line is passed over,
\* any other line is parsed and appended, or ends readGitRefs with an error.
scanLine(line, acc) ==
    IF line # EmptyLine
      THEN LET r == parseGitRef(line)
           IN  IF r.err THEN [err |-> TRUE, refs |-> << >>]
                        ELSE [err |-> FALSE, refs |-> Append(acc, r.ref)]
      ELSE [err |-> FALSE, refs |-> acc]

\* os.Args of a hook process started with args arguments: Git gives the hook
\* the name and the location of the remote.
Argv ==
    <<"pre-push", IF mainPc = "none" THEN "origin" ELSE firstArg, "git@example.com:demo.git">>
OsArgs(args) == SubSeq(Argv, 1, args)

\* A parseGitPushInfo that passes over the names of the deleted refs.
parseGitPushInfoLiveRefs(rs, args) ==
    IF args < 2
      THEN [err |-> TRUE, info |-> NoPushInfo]
      ELSE LET tagRefs == SelectSeq(rs, LAMBDA r : ~r.IsDelete /\ r.IsTag)
               branchRefs == SelectSeq(rs, LAMBDA r : ~r.IsDelete /\ ~r.IsTag /\ r.IsBranch)
               tags == [i \in DOMAIN tagRefs |-> TrimPrefix(tagRefs[i].LocalRef, TagsPrefix)]
               branches == [i \in DOMAIN branchRefs |->
                               TrimPrefix(branchRefs[i].LocalRef, HeadsPrefix)]
           IN  [err |-> FALSE,
                info |-> [Tags |-> tags,
                          Branches |-> branches,
                          IsDelete |-> \E i \in DOMAIN rs : rs[i].IsDelete,
                          RemoteName |-> OsArgs(args)[2],
                          RemoteURL |-> IF args > 2 THEN OsArgs(args)[3] ELSE ""]]
\* A parseGitPushInfo whose IsDelete looks at the first ref only.
parseGitPushInfoFirstRef(rs, args) ==
    IF args < 2
      THEN [err |-> TRUE, info |-> NoPushInfo]
      ELSE LET tagRefs == SelectSeq(rs, LAMBDA r : r.IsTag)
               branchRefs == SelectSeq(rs, LAMBDA r : ~r.IsTag /\ r.IsBranch)
           IN  [err |-> FALSE,
                info |-> [Tags |-> [i \in DOMAIN tagRefs |-> TrimPrefix(tagRefs[i].LocalRef, TagsPrefix)],
                          Branches |-> [i \in DOMAIN branchRefs |-> TrimPrefix(branchRefs[i].LocalRef, HeadsPrefix)],
                          IsDelete |-> rs # << >> /\ rs[1].IsDelete,
                          RemoteName |-> OsArgs(args)[2],
                          RemoteURL |-> IF args > 2 THEN OsArgs(args)[3] ELSE ""]]
\* parseGitPushInfo: needs the remote name in os.Args[1]; collects the tag and
\* branch names in the order of the refs; IsDelete if any ref is a delete.
parseGitPushInfo(rs, args) ==
    IF args < 2
      THEN [err |-> TRUE, info |-> NoPushInfo]
      ELSE LET tagRefs == SelectSeq(rs, LAMBDA r : r.IsTag)
               branchRefs == SelectSeq(rs, LAMBDA r : ~r.IsTag /\ r.IsBranch)
           IN  [err |-> FALSE,
                info |-> [Tags |-> [i \in DOMAIN tagRefs |-> TrimPrefix(tagRefs[i].LocalRef, TagsPrefix)],
                          Branches |-> [i \in DOMAIN branchRefs |-> TrimPrefix(branchRefs[i].LocalRef, HeadsPrefix)],
                          IsDelete |-> \E i \in DOMAIN rs : rs[i].IsDelete,
                          RemoteName |-> OsArgs(args)[2],
                          RemoteURL |-> IF args > 2 THEN OsArgs(args)[3] ELSE ""]]

\* A ValidateVersion without the digit check.
ValidateVersionPrefixOnly(version) ==
    IF version = << >> THEN "version cannot be empty"
    ELSE IF ~HasPrefix(version, "v") THEN "version should start with 'v'"
    ELSE "nil"
\* Detector.ValidateVersion
ValidateVersion(version) ==
    IF version = << >> THEN "version cannot be empty"
    ELSE IF ~HasPrefix(version, "v") THEN "version should start with 'v'"
    ELSE IF ~(\E i \in DOMAIN version : version[i] \in Digits)
           THEN "version should contain at least one digit"
    ELSE "nil"

validateTagSemantics(tag) ==
    IF ValidateVersion(tag) # "nil" THEN "not a valid semantic version" ELSE "nil"

shouldSkipPrePushStage(info, branch, tag) ==
    IF branch.err THEN FALSE
    ELSE IF tag.err THEN FALSE
    ELSE \/ \E i \in DOMAIN info.Tags : info.Tags[i] # tag.out
         \/ \E i \in DOMAIN info.Branches : info.Branches[i] # branch.out

\* The inputs of a hook run.
TagNames == { << >>, <<"v">>, <<"1">>, <<"v", "1">>, <<"v", "2">> }
BranchNames == { <<"main">>, <<"dev">> }
LocalRefs == {<<TagsPrefix>> \o t : t \in TagNames}
             \cup {<<HeadsPrefix>> \o b : b \in BranchNames}
             \cup { <<"HEAD">> }
RefLine(localRef, localSHA) == <<localRef, SP, localSHA, SP, localRef, SP, SomeSHA>>
WellFormedLines == {RefLine(l, sha) : l \in LocalRefs, sha \in {ZeroSHA, SomeSHA}}
MalformedLines ==
    { <<SP>>,
      << <<HeadsPrefix, "main">>, SP, ZeroSHA, SP, <<HeadsPrefix, "main">> >>,
      RefLine(<<TagsPrefix, "v", "1">>, SomeSHA) \o <<SP, <<"extra">> >> }
StdinLines == WellFormedLines \cup MalformedLines \cup {EmptyLine}
RECURSIVE SeqsUpTo(_, _)
SeqsUpTo(S, n) ==
    IF n = 0 THEN { << >> }
    ELSE LET shorter == SeqsUpTo(S, n - 1)
         IN  shorter \cup {Append(q, x) : q \in {t \in shorter : Len(t) = n - 1}, x \in S}
GitOutcomes(names) == {[err |-> TRUE, out |-> << >>]} \cup {[err |-> FALSE, out |-> n] : n \in names}

\* No stage is being run.
StageIdle ==
    /\ steps = << >>
    /\ nodeAction = << >>
    /\ versionType = VersionTypeError
    /\ pc = "none"
    /\ dag = NilDAG
    /\ runErr = "unset"
    /\ readySteps = {}
    /\ nodeName = 0
    /\ completed = << >>
    /\ failed = << >>
    /\ displayed = << >>
    /\ executing = << >>
    /\ resultMap = << >>
    /\ results = << >>
    /\ resultChan = << >>
    /\ closed = FALSE
    /\ wg = {}
    /\ hpc = "none"
    /\ result = NoResult
    /\ printed = << >>
    /\ ran = {}
    /\ success = "unset"
    /\ summary = "unset"
    /\ cancelled = FALSE

\* What runGitHook does not write.
outsideHook == <<stageVars, cancelled, installVars, resolveVars, unitVars>>

InitHook ==
    /\ stdin \in SeqsUpTo(StdinLines, MaxLines)
    /\ argc \in 1..3
    /\ currentTag \in GitOutcomes({<<"v", "1">>})
    /\ currentBranch \in GitOutcomes({<<"main">>})
    /\ hookPc = "readGitRefs"
    /\ lineNo = 0
    /\ refs = << >>
    /\ pushInfo = NoPushInfo
    /\ hookErr = "unset"
    /\ calls = {}
    /\ StageIdle
    /\ InstallIdle
    /\ ResolveIdle
    /\ UnitIdle

\* readGitRefs: for scanner.Scan() { ... }
ScanLine ==
    /\ hookPc = "readGitRefs"
    /\ lineNo < Len(stdin)
    /\ lineNo' = lineNo + 1
    /\ LET r == scanLine(stdin[lineNo + 1], refs)
       IN  IF r.err
             THEN /\ hookErr' = "failed to read Git refs"
                  /\ hookPc' = "exit"
                  /\ refs' = << >>
             ELSE /\ refs' = r.refs
                  /\ UNCHANGED <<hookErr, hookPc>>
    /\ UNCHANGED <<outsideHook, stdin, argc, currentTag, currentBranch, pushInfo, calls>>

\* readGitRefs returns refs; if len(refs) == 0 { return nil }
EndOfInput ==
    /\ hookPc = "readGitRefs"
    /\ lineNo = Len(stdin)
    /\ IF Len(refs) = 0
         THEN hookErr' = "nil" /\ hookPc' = "exit"
         ELSE hookPc' = "parseGitPushInfo" /\ UNCHANGED hookErr
    /\ UNCHANGED <<outsideHook, stdin, argc, currentTag, currentBranch, lineNo, refs,
                   pushInfo, calls>>

\* pushInfo, err := parseGitPushInfo(refs)
ParseGitPushInfo ==
    /\ hookPc = "parseGitPushInfo"
    /\ calls' = calls \cup {"parseGitPushInfo"}
    /\ LET r == parseGitPushInfo(refs, argc)
       IN  IF r.err
             THEN /\ hookErr' = "failed to parse Git push info"
                  /\ hookPc' = "exit"
                  /\ UNCHANGED pushInfo
             ELSE /\ pushInfo' = r.info
                  /\ hookPc' = "rule1"
                  /\ UNCHANGED hookErr
    /\ UNCHANGED <<outsideHook, stdin, argc, currentTag, currentBranch, lineNo, refs>>

\* 1. if pushInfo.IsDelete { return nil }
DeleteGate ==
    /\ hookPc = "rule1"
    /\ IF pushInfo.IsDelete
         THEN hookErr' = "nil" /\ hookPc' = "exit"
         ELSE hookPc' = "rule2" /\ UNCHANGED hookErr
    /\ UNCHANGED <<outsideHook, stdin, argc, currentTag, currentBranch, lineNo, refs,
                   pushInfo, calls>>

\* 2. for _, tag := range pushInfo.Tags { validateTagSemantics(tag) }
ValidateTags ==
    /\ hookPc = "rule2"
    /\ calls' = IF pushInfo.Tags # << >> THEN calls \cup {"validateTagSemantics"} ELSE calls
    /\ IF \E i \in DOMAIN pushInfo.Tags : validateTagSemantics(pushInfo.Tags[i]) # "nil"
         THEN hookErr' = "invalid tag semantics" /\ hookPc' = "exit"
         ELSE hookPc' = "rule3" /\ UNCHANGED hookErr
    /\ UNCHANGED <<outsideHook, stdin, argc, currentTag, currentBranch, lineNo, refs,
                   pushInfo>>

\* 3. if shouldSkipPrePushStage(pushInfo) { return nil }
SkipGate ==
    /\ hookPc = "rule3"
    /\ calls' = calls \cup {"shouldSkipPrePushStage"}
    /\ IF shouldSkipPrePushStage(pushInfo, currentBranch, currentTag)
         THEN hookErr' = "nil" /\ hookPc' = "exit"
         ELSE hookPc' = "LoadConfig" /\ UNCHANGED hookErr
    /\ UNCHANGED <<outsideHook, stdin, argc, currentTag, currentBranch, lineNo, refs,
                   pushInfo>>

\* buildfabConfig, err := buildfab.LoadConfig(".project.yml")
LoadConfig ==
    /\ hookPc = "LoadConfig"
    /\ calls' = calls \cup {"LoadConfig"}
    /\ \/ hookErr' = "failed to load configuration" /\ hookPc' = "exit"
       \/ hookPc' = "RunStage" /\ UNCHANGED hookErr
    /\ UNCHANGED <<outsideHook, stdin, argc, currentTag, currentBranch, lineNo, refs,
                   pushInfo>>

\* return executor.RunStage(ctx, "pre-push")
HookRunStage ==
    /\ hookPc = "RunStage"
    /\ calls' = calls \cup {"RunStage"}
    /\ hookErr' \in {"nil", "stage failed"}
    /\ hookPc' = "exit"
    /\ UNCHANGED <<outsideHook, stdin, argc, currentTag, currentBranch, lineNo, refs,
                   pushInfo>>

NextHook ==
    \/ ScanLine
    \/ EndOfInput
    \/ ParseGitPushInfo
    \/ DeleteGate
    \/ ValidateTags
    \/ SkipGate
    \/ LoadConfig
    \/ HookRunStage

SpecHook == InitHook /\ [][NextHook]_vars

----------------------------------------------------------------------------
(* Vocabulary of the hook properties, stated on the input of the run *)

HookReturned == hookPc = "exit"
InputLines == {stdin[i] : i \in DOMAIN stdin}
NonEmptyLines == InputLines \ {EmptyLine}
\* Every non-empty line is a ref line, and there is at least one.
WellFormedPush == NonEmptyLines # {} /\ NonEmptyLines \subseteq WellFormedLines
DeleteLines == {l \in NonEmptyLines \cap WellFormedLines : l[3] = ZeroSHA}
PushedTags == {Tail(l[1]) : l \in {m \in NonEmptyLines \cap WellFormedLines : m[1][1] = TagsPrefix}}
PushedBranches == {Tail(l[1]) : l \in {m \in NonEmptyLines \cap WellFormedLines : m[1][1] = HeadsPrefix}}
\* Non-empty, begins with 'v', contains a digit.
AcceptableTag(t) == t # << >> /\ t[1] = "v" /\ \E i \in DOMAIN t : t[i] \in Digits
StageWork == {"LoadConfig", "RunStage"}

\* C12 (as stated) - Delete gate: a push of well-formed lines with at least
\* one delete line returns success without loading the manifest or running
\* the stage, whatever else the push contains and whatever the arguments.
C12_DeleteGate ==
    HookReturned /\ WellFormedPush /\ DeleteLines # {}
        => hookErr = "nil" /\ calls \cap StageWork = {}

\* C12 (amended) - Delete gate: when the hook is given the remote name
\* (len(os.Args) >= 2), a push of well-formed lines with at least one delete
\* line returns success without validating tags, loading the manifest or
\* running the stage, also when it carries a tag with invalid semantics.
C12_DeleteGateWithRemote ==
    HookReturned /\ WellFormedPush /\ DeleteLines # {} /\ argc >= 2
        => hookErr = "nil" /\ calls = {"parseGitPushInfo"}
C12_Witness ==
    /\ HookReturned /\ WellFormedPush /\ DeleteLines # {} /\ argc >= 2
    /\ \E t \in PushedTags : ~AcceptableTag(t)
    /\ hookErr = "nil"

\* C13 - Invalid-tag gate: a push without a delete ref in which some pushed
\* tag is empty, does not begin with 'v' or has no digit returns an error
\* before the manifest is loaded and before the stage runs; rule 2 lets a
\* push through exactly when every pushed tag is acceptable.
C13_InvalidTagGate ==
    /\ HookReturned /\ WellFormedPush /\ DeleteLines = {}
         /\ (\E t \in PushedTags : ~AcceptableTag(t))
         => hookErr \notin {"nil", "unset"} /\ calls \cap StageWork = {}
    /\ HookReturned /\ WellFormedPush /\ DeleteLines = {} /\ argc >= 2
         /\ (\A t \in PushedTags : AcceptableTag(t))
         => hookErr # "invalid tag semantics" /\ "shouldSkipPrePushStage" \in calls
C13_Witness ==
    /\ HookReturned /\ WellFormedPush /\ DeleteLines = {} /\ argc >= 2
    /\ <<"v">> \in PushedTags
    /\ hookErr = "invalid tag semantics"

\* C14 - Non-current-ref gate: a push with no delete ref and only acceptable
\* tags in which a pushed tag differs from the current tag, or a pushed
\* branch differs from the current branch, returns success without running
\* the stage, in every repository state.
C14_NonCurrentRefGate ==
    HookReturned /\ WellFormedPush /\ DeleteLines = {} /\ argc >= 2
      /\ (\A t \in PushedTags : AcceptableTag(t))
      /\ \/ \E t \in PushedTags : ~currentTag.err /\ t # currentTag.out
         \/ \E b \in PushedBranches : ~currentBranch.err /\ b # currentBranch.out
      => hookErr = "nil" /\ calls \cap StageWork = {}

\* C15 - Malformed push input: when some non-empty stdin line does not have
\* exactly four fields, the hook never gets past readGitRefs: it calls
\* nothing else and returns the read error, whatever the other lines are.
C15_MalformedInput ==
    InputLines \cap MalformedLines # {}
        => /\ hookPc \in {"readGitRefs", "exit"}
           /\ calls = {}
           /\ pushInfo = NoPushInfo
           /\ HookReturned => hookErr = "failed to read Git refs"
C15_Witness ==
    /\ HookReturned
    /\ InputLines \cap MalformedLines # {}
    /\ DeleteLines # {}
    /\ hookErr = "failed to read Git refs"

\* C16 - Empty push input: when stdin has no non-empty line, the hook returns
\* success without reading the arguments, loading the manifest or running
\* the stage, also when there is no remote-name argument.
C16_EmptyInput ==
    NonEmptyLines = {}
        => /\ hookPc \in {"readGitRefs", "exit"}
           /\ calls = {}
           /\ HookReturned => hookErr = "nil"
C16_Witness ==
    /\ HookReturned
    /\ stdin # << >>
    /\ NonEmptyLines = {}
    /\ argc = 1
    /\ hookErr = "nil"

----------------------------------------------------------------------------
(* The hook installer: checkAndUpdateGitHook of cmd/pre-push/main.go and     *)
(* Installer.Install of internal/install/installer.go                        *)

\* Largest number of successive install operations.
MaxInstalls == 2

\* File contents: the running executable, another build of it, and a file
\* crafted to have the MD5 digest of the running executable.
Contents == {"pre-push 1.4.0", "pre-push 1.3.0", "crafted"}

\* crypto/md5 of a content: a digest, not the content; MD5 has collisions.
md5(content) ==
    CASE content = "pre-push 1.4.0" -> "5f1d7c"
      [] content = "pre-push 1.3.0" -> "a09e33"
      [] content = "crafted" -> "5f1d7c"

\* Owner permission bits of a file mode: 0755, 0644, 0444, 0200.
Mode0755 == {"r", "w", "x"}
Mode0644 == {"r", "w"}
Mode0444 == {"r"}
Mode0200 == {"w"}
Modes == {Mode0755, Mode0644, Mode0444, Mode0200}

File(content, mode) == [exists |-> TRUE, content |-> content, mode |-> mode]
HookFiles == {Missing} \cup {File(c, m) : c \in Contents, m \in Modes}

\* calculateFileMD5(hookPath): os.Open needs the read permission.
calculateFileMD5(file) ==
    IF "r" \in file.mode THEN [sum |-> md5(file.content), err |-> "nil"]
                         ELSE [sum |-> "", err |-> "permission denied"]

\* An isBinaryDifferent that never finds the hook up to date.
isBinaryDifferentAlways(bin, hook, repo) ==
    IF ~repo THEN [different |-> FALSE, err |-> "failed to get git hook path"]
    ELSE [different |-> TRUE, err |-> "nil"]
\* main.go isBinaryDifferent
isBinaryDifferent(bin, hook, repo) ==
    IF ~repo THEN [different |-> FALSE, err |-> "failed to get git hook path"]
    ELSE IF ~hook.exists THEN [different |-> TRUE, err |-> "nil"]
    ELSE LET hookHash == calculateFileMD5(hook)
         IN  IF hookHash.err # "nil"
               THEN [different |-> FALSE, err |-> "failed to calculate hook binary hash"]
               ELSE [different |-> md5(bin) # hookHash.sum, err |-> "nil"]

\* os.OpenFile(hookPath, O_CREATE|O_WRONLY|O_TRUNC, 0755) followed by io.Copy:
\* a new file gets mode 0755, an existing file keeps its mode and needs the
\* write permission.
copyBinaryToHook(bin, hook) ==
    IF ~hook.exists THEN [file |-> File(bin, Mode0755), err |-> "nil"]
    ELSE IF "w" \notin hook.mode THEN [file |-> hook, err |-> "failed to create hook file"]
    ELSE [file |-> File(bin, hook.mode), err |-> "nil"]

\* main.go updateGitHook
updateGitHook(bin, hook, repo) ==
    IF ~repo THEN [file |-> hook, err |-> "failed to get git hook path"]
    ELSE copyBinaryToHook(bin, hook)

\* main.go checkAndUpdateGitHook
checkAndUpdateGitHook(bin, hook, repo) ==
    LET d == isBinaryDifferent(bin, hook, repo)
    IN  IF d.err # "nil"
          THEN [file |-> hook, updated |-> FALSE, err |-> "failed to check if binary is different"]
          ELSE IF d.different
            THEN LET u == updateGitHook(bin, hook, repo)
                 IN  IF u.err # "nil"
                       THEN [file |-> hook, updated |-> FALSE, err |-> "failed to update git hook"]
                       ELSE [file |-> u.file, updated |-> TRUE, err |-> "nil"]
            ELSE [file |-> hook, updated |-> FALSE, err |-> "nil"]

\* installer.go isHookUpToDate
isHookUpToDate(bin, hook) ==
    IF ~hook.exists THEN FALSE
    ELSE LET hookMD5 == calculateFileMD5(hook)
         IN  IF hookMD5.err # "nil" THEN FALSE ELSE hookMD5.sum = md5(bin)

\* installer.go Installer.Install: createHookScript, then os.Chmod 0755
Install(bin, hook, repo) ==
    IF ~repo THEN [file |-> hook, updated |-> FALSE, err |-> "not in a git repository"]
    ELSE IF isHookUpToDate(bin, hook) THEN [file |-> hook, updated |-> FALSE, err |-> "nil"]
    ELSE LET c == copyBinaryToHook(bin, hook)
         IN  IF c.err # "nil"
               THEN [file |-> hook, updated |-> FALSE, err |-> "failed to create hook script"]
               ELSE [file |-> File(c.file.content, Mode0755), updated |-> TRUE, err |-> "nil"]

\* What an install operation does not write.
outsideInstall == <<stageVars, cancelled, hookVars, resolveVars, unitVars>>

InitInstall ==
    /\ binary = "pre-push 1.4.0"
    /\ hookFile \in HookFiles
    /\ inRepo \in BOOLEAN
    /\ impl \in {"checkAndUpdateGitHook", "Installer.Install"}
    /\ installs = << >>
    /\ StageIdle
    /\ HookIdle
    /\ ResolveIdle
    /\ UnitIdle

Record(before, r) ==
    [before |-> before, after |-> r.file, updated |-> r.updated, err |-> r.err,
     wrote |-> r.file # before]

\* `pre-push install` of the binary whose runInstall calls checkAndUpdateGitHook
RunInstall ==
    /\ impl = "checkAndUpdateGitHook"
    /\ Len(installs) < MaxInstalls
    /\ LET r == checkAndUpdateGitHook(binary, hookFile, inRepo)
       IN  /\ hookFile' = r.file
           /\ installs' = Append(installs, Record(hookFile, r))
    /\ UNCHANGED <<outsideInstall, binary, inRepo, impl>>

\* `pre-push install` of the binary whose runInstall calls Installer.Install
InstallerInstall ==
    /\ impl = "Installer.Install"
    /\ Len(installs) < MaxInstalls
    /\ LET r == Install(binary, hookFile, inRepo)
       IN  /\ hookFile' = r.file
           /\ installs' = Append(installs, Record(hookFile, r))
    /\ UNCHANGED <<outsideInstall, binary, inRepo, impl>>

NextInstall ==
    \/ RunInstall
    \/ InstallerInstall

SpecInstall == InitInstall /\ [][NextInstall]_vars

\* C17 - Hook idempotence: of two successive install operations of the same
\* binary, the second leaves .git/hooks/pre-push as the first left it,
\* writes nothing, and, when the first succeeded, succeeds and reports that
\* no update occurred.
C17_HookIdempotence ==
    \A i \in 1..(Len(installs) - 1) :
        /\ installs[i + 1].before = installs[i].after
        /\ installs[i + 1].after = installs[i].after
        /\ ~installs[i + 1].wrote
        /\ ~installs[i + 1].updated
        /\ installs[i].err = "nil" => installs[i + 1].err = "nil"
C17_Witness ==
    /\ Len(installs) = 2
    /\ installs[1].err = "nil" /\ installs[1].wrote /\ installs[1].updated
    /\ installs[1].before.exists
    /\ installs[2].err = "nil" /\ ~installs[2].updated
    /\ hookFile.content = binary

\* C18 - Install postcondition: after every successful install operation the
\* hook file has the content of the running executable and is executable by
\* its owner, and it was rewritten exactly when it was missing or its content
\* hash differed from the executable's.
C18_ContentIsBinary ==
    \A i \in DOMAIN installs :
        installs[i].err = "nil" => installs[i].after.exists /\ installs[i].after.content = binary
C18_OwnerExecutable ==
    \A i \in DOMAIN installs :
        installs[i].err = "nil" => installs[i].after.exists /\ "x" \in installs[i].after.mode
C18_RewrittenIffDifferent ==
    \A i \in DOMAIN installs :
        installs[i].err = "nil" =>
            (installs[i].updated <=> \/ ~installs[i].before.exists
                                     \/ md5(installs[i].before.content) # md5(binary))
C18_InstallPostcondition ==
    C18_ContentIsBinary /\ C18_OwnerExecutable /\ C18_RewrittenIffDifferent

----------------------------------------------------------------------------
(* Variable interpolation: resolveString of the config package               *)
(*                                                                           *)
(* A string is the sequence of its characters.  Positions count from 1 and   *)
(* Index returns 0 where strings.Index returns -1.                           *)

\* Largest number of pieces the input string is put together from.
MaxPieces == 2

Open == <<"$", "{", "{">>
Close == <<"}", "}">>

\* strings.Index
Index(str, sub) ==
    LET hits == {i \in 1..(Len(str) - Len(sub) + 1) : SubSeq(str, i, i + Len(sub) - 1) = sub}
    IN  IF hits = {} THEN 0 ELSE Min(hits)

\* strings.TrimSpace
RECURSIVE TrimSpace(_)
TrimSpace(str) ==
    IF str = << >> THEN str
    ELSE IF Head(str) = " " THEN TrimSpace(Tail(str))
    ELSE IF str[Len(str)] = " " THEN TrimSpace(SubSeq(str, 1, Len(str) - 1))
    ELSE str

\* One iteration of the for loop of resolveString on the current result:
\* break, an error return, or the result with the first reference replaced.
resolveIteration(res, vs) ==
    LET start == Index(res, Open)
        rest == SubSeq(res, start, Len(res))
        end == Index(rest, Close)
        variableName == TrimSpace(SubSeq(res, start + 3, start + end - 2))
    IN  IF start = 0 THEN [kind |-> "break", result |-> res, err |-> "nil"]
        ELSE IF end = 0 THEN [kind |-> "return", result |-> << >>, err |-> "unclosed variable reference"]
        ELSE IF variableName \notin DOMAIN vs
               THEN [kind |-> "return", result |-> << >>, err |-> "undefined variable"]
        ELSE [kind |-> "continue",
              result |-> SubSeq(res, 1, start - 1) \o vs[variableName]
                         \o SubSeq(res, start + end + 1, Len(res)),
              err |-> "nil"]

\* The strings and contexts resolveString is called with.
Reference(key) == Open \o <<" ">> \o key \o <<" ">> \o Close
KeyA == <<"a">>
KeyB == <<"b">>
KeyX == <<"x">>
Pieces == { <<"t">>, Reference(KeyA), Reference(KeyB), Reference(KeyX), Open, Close,
            Open \o KeyA \o Close }
RECURSIVE Concat(_)
Concat(ps) == IF ps = << >> THEN << >> ELSE Head(ps) \o Concat(Tail(ps))
InputStrings == {Concat(ps) : ps \in SeqsUpTo(Pieces, MaxPieces)}
Values == { <<"v">>, << >>, Reference(KeyA), Reference(KeyB), Reference(KeyX) }
Contexts == [{KeyA} -> Values] \cup [{KeyA, KeyB} -> Values]

\* What resolveString does not write.
outsideResolve == <<stageVars, cancelled, hookVars, installVars, unitVars>>

InitResolve ==
    /\ inputString \in InputStrings
    /\ variables \in Contexts
    /\ resolvePc = "loop"
    /\ resolveResult = inputString
    /\ resolveErr = "unset"
    /\ StageIdle
    /\ HookIdle
    /\ InstallIdle
    /\ UnitIdle

\* start == -1: break; return result, nil
ResolveBreak ==
    /\ resolvePc = "loop"
    /\ resolveIteration(resolveResult, variables).kind = "break"
    /\ resolvePc' = "returned"
    /\ resolveErr' = "nil"
    /\ UNCHANGED <<outsideResolve, inputString, variables, resolveResult>>

\* return "", fmt.Errorf(...)
ResolveFail ==
    /\ resolvePc = "loop"
    /\ LET r == resolveIteration(resolveResult, variables)
       IN  /\ r.kind = "return"
           /\ resolveErr' = r.err
           /\ resolveResult' = r.result
    /\ resolvePc' = "returned"
    /\ UNCHANGED <<outsideResolve, inputString, variables>>

\* value, exists := variables[variableName] with exists true
ResolveLookup ==
    /\ resolvePc = "loop"
    /\ resolveIteration(resolveResult, variables).kind = "continue"
    /\ resolvePc' = "replace"
    /\ UNCHANGED <<outsideResolve, inputString, variables, resolveResult, resolveErr>>

\* result = result[:start] + value + result[end:]; next iteration
ResolveReplace ==
    /\ resolvePc = "replace"
    /\ resolveResult' = resolveIteration(resolveResult, variables).result
    /\ resolvePc' = "loop"
    /\ UNCHANGED <<outsideResolve, inputString, variables, resolveErr>>

NextResolve ==
    \/ ResolveBreak
    \/ ResolveFail
    \/ ResolveLookup
    \/ ResolveReplace

SpecResolve == InitResolve /\ [][NextResolve]_vars

\* Calls with a context of one key.
InitResolveOneKey == InitResolve /\ DOMAIN variables = {KeyA}

\* The loop of resolveString keeps running while it has an iteration to run.
SpecResolveFair == InitResolveOneKey /\ [][NextResolve]_vars /\ WF_vars(NextResolve)

----------------------------------------------------------------------------
(* Vocabulary of the interpolation properties: the references of a string,   *)
(* read once from left to right                                              *)

\* The scan of str from the left: the text before the first reference, the
\* key of that reference, and the text after it; or no reference, or an
\* unclosed one.
FirstReference(str) ==
    LET start == Index(str, Open)
        end == Index(SubSeq(str, start, Len(str)), Close)
    IN  IF start = 0 THEN [kind |-> "none"]
        ELSE IF end = 0 THEN [kind |-> "unclosed"]
        ELSE [kind |-> "ref",
              before |-> SubSeq(str, 1, start - 1),
              key |-> TrimSpace(SubSeq(str, start + 3, start + end - 2)),
              after |-> SubSeq(str, start + end + 1, Len(str))]

\* Single-pass interpolation: each reference of str is replaced by its value
\* and the scan goes on behind the inserted text.
RECURSIVE SinglePass(_, _)
SinglePass(str, vs) ==
    LET f == FirstReference(str)
    IN  IF f.kind = "none" THEN [ok |-> TRUE, out |-> str]
        ELSE IF f.kind = "unclosed" THEN [ok |-> FALSE, out |-> << >>]
        ELSE IF f.key \notin DOMAIN vs THEN [ok |-> FALSE, out |-> << >>]
        ELSE LET tail == SinglePass(f.after, vs)
             IN  IF tail.ok THEN [ok |-> TRUE, out |-> f.before \o vs[f.key] \o tail.out]
                            ELSE tail

\* The keys referenced by str, and whether its scan ends in an unclosed "${{".
RECURSIVE ReferencedKeys(_)
ReferencedKeys(str) ==
    LET f == FirstReference(str)
    IN  IF f.kind = "ref" THEN {f.key} \cup ReferencedKeys(f.after) ELSE {}
RECURSIVE EndsUnclosed(_)
EndsUnclosed(str) ==
    LET f == FirstReference(str)
    IN  IF f.kind = "ref" THEN EndsUnclosed(f.after) ELSE f.kind = "unclosed"

Returned == resolvePc = "returned"

\* C19 - Interpolation is single-pass: when resolveString returns a result,
\* it is the input with each reference replaced by its value, and inserted
\* text was not scanned again (a value holding a reference stays verbatim).
C19_SinglePass ==
    Returned /\ resolveErr = "nil"
        => LET once == SinglePass(inputString, variables)
           IN  once.ok /\ resolveResult = once.out

\* C20 - Interpolation errors: resolveString returns an error and no result
\* when the input references a key that is not in the context or has an
\* unclosed "${{", and returns the input unchanged when it has no "${{".
C20_MustFail ==
    (\E k \in ReferencedKeys(inputString) : k \notin DOMAIN variables) \/ EndsUnclosed(inputString)
C20_InterpolationErrors ==
    /\ C20_MustFail ~> (Returned /\ resolveErr # "nil" /\ resolveResult = << >>)
    /\ Index(inputString, Open) = 0
           ~> (Returned /\ resolveErr = "nil" /\ resolveResult = inputString)

----------------------------------------------------------------------------
(* Manifest validation: Config.Validate of pkg/prepush/prepush.go            *)
(*                                                                           *)
(* A string is a TLA+ string; "" is Go's zero value, which is what a field  *)
(* absent from the manifest holds.  Stages is a function from the stage      *)
(* names of the manifest to their Stage.                                     *)

\* Largest number of actions declared in a manifest.
MaxActions == 2
\* Largest number of steps of the pre-push stage of a manifest.
MaxStageSteps == 2


\* The loop over step.Only.
validateOnly(only) ==
    IF \E k \in DOMAIN only :
          only[k] \notin {"release", "prerelease", "patch", "minor", "major"}
      THEN "step has invalid only value" ELSE "nil"

\* A loop body without the test of step.OnError.
validateStepNoOnError(step, actionNames) ==
    IF step.Action = "" THEN "step must have an action"
    ELSE IF step.Action \notin actionNames THEN "step references unknown action"
    ELSE validateOnly(step.Only)

\* The body of the loop over stage.Steps.
validateStep(step, actionNames) ==
    IF step.Action = "" THEN "step must have an action"
    ELSE IF step.Action \notin actionNames THEN "step references unknown action"
    ELSE IF step.OnError # "" /\ step.OnError # "stop" /\ step.OnError # "warn"
      THEN "step has invalid onerror value"
    ELSE validateOnly(step.Only)

RECURSIVE validateSteps(_, _)
validateSteps(stepSeq, actionNames) ==
    IF stepSeq = << >> THEN "nil"
    ELSE LET e == validateStep(Head(stepSeq), actionNames)
         IN  IF e # "nil" THEN e ELSE validateSteps(Tail(stepSeq), actionNames)

\* The loop over c.Stages, visiting the stage names in the given order.
RECURSIVE validateStages(_, _, _)
validateStages(stages, order, actionNames) ==
    IF order = << >> THEN "nil"
    ELSE LET stage == stages[Head(order)]
         IN  IF Len(stage.Steps) = 0 THEN "stage must have at least one step"
             ELSE LET e == validateSteps(stage.Steps, actionNames)
                  IN  IF e # "nil" THEN e
                      ELSE validateStages(stages, Tail(order), actionNames)

\* The loop over c.Actions; actionNames is the map filled so far.
RECURSIVE validateActions(_, _)
validateActions(actions, actionNames) ==
    IF actions = << >> THEN [err |-> "nil", actionNames |-> actionNames]
    ELSE LET action == Head(actions)
         IN  IF action.Name = "" THEN [err |-> "action name is required", actionNames |-> actionNames]
             ELSE IF action.Run = "" /\ action.Uses = ""
               THEN [err |-> "action must have either 'run' or 'uses'", actionNames |-> actionNames]
             ELSE IF action.Run # "" /\ action.Uses # ""
               THEN [err |-> "action cannot have both 'run' and 'uses'", actionNames |-> actionNames]
             ELSE IF action.Name \in actionNames
               THEN [err |-> "duplicate action name", actionNames |-> actionNames]
             ELSE validateActions(Tail(actions), actionNames \cup {action.Name})

\* Config.Validate; order is the order in which the range visits c.Stages.
Validate(c, order) ==
    IF c.Project.Name = "" THEN "project name is required"
    ELSE IF Len(c.Actions) = 0 THEN "at least one action is required"
    ELSE LET a == validateActions(c.Actions, {})
         IN  IF a.err # "nil" THEN a.err
             ELSE validateStages(c.Stages, order, a.actionNames)

\* Sequences over S of length at most n.
SeqsAtMost(S, n) == UNION {[1..k -> S] : k \in 0..n}

ActionPool ==
    [Name : {"", "a", "b"}, Run : {"", "make test"}, Uses : {"", "git@untracked"}]

StepPool ==
    [Action : {"", "a", "b"},
     OnError : {"", "stop", "warn", "ignore"},
     Only : {<< >>, <<"release", "major">>, <<"patch", "beta">>}]

\* The pre-push stage of any shape with at most maxSteps steps, with or
\* without a second stage that is empty or has one step.
StageMaps(maxSteps) ==
    LET prePush == {[Steps |-> st] : st \in SeqsAtMost(StepPool, maxSteps)}
        test == {[Steps |-> << >>],
                 [Steps |-> <<[Action |-> "a", OnError |-> "", Only |-> << >>]>>]}
    IN  {<< >>}
        \cup {[n \in {"pre-push"} |-> p] : p \in prePush}
        \cup {[n \in {"pre-push", "test"} |-> IF n = "test" THEN t ELSE p] :
                 p \in prePush, t \in test}

Configs(maxSteps) ==
    [Project : [Name : {"", "demo"}],
     Actions : SeqsAtMost(ActionPool, MaxActions),
     Stages : StageMaps(maxSteps)]

\* The orders in which a range over the stages of c can visit them.
StageOrders(c) ==
    {o \in SeqsAtMost(DOMAIN c.Stages, Cardinality(DOMAIN c.Stages)) :
        /\ Len(o) = Cardinality(DOMAIN c.Stages)
        /\ \A i, j \in DOMAIN o : i # j => o[i] # o[j]}

outsideValidate ==
    <<stageVars, cancelled, hookVars, installVars, resolveVars, graphVars, cliVars>>

InitValidate ==
    /\ config \in Configs(MaxStageSteps)
    /\ validateErr = "unset"
    /\ StageIdle
    /\ HookIdle
    /\ InstallIdle
    /\ ResolveIdle
    /\ GraphIdle
    /\ CliIdle

\* err := c.Validate()
ConfigValidate ==
    /\ validateErr = "unset"
    /\ \E order \in StageOrders(config) : validateErr' = Validate(config, order)
    /\ UNCHANGED <<config, outsideValidate>>

NextValidate == ConfigValidate

SpecValidate == InitValidate /\ [][NextValidate]_vars

\* The defects of a manifest, read from the manifest alone.
EmptyProjectName == config.Project.Name = ""
ActionWithEmptyName == \E i \in DOMAIN config.Actions : config.Actions[i].Name = ""
ActionNotExactlyOne ==
    \E i \in DOMAIN config.Actions :
       (config.Actions[i].Run = "") = (config.Actions[i].Uses = "")
DuplicateActionName ==
    \E i, j \in DOMAIN config.Actions :
       i # j /\ config.Actions[i].Name = config.Actions[j].Name
StageWithoutSteps == \E n \in DOMAIN config.Stages : config.Stages[n].Steps = << >>
AllSteps ==
    UNION {{config.Stages[n].Steps[i] : i \in DOMAIN config.Stages[n].Steps} :
              n \in DOMAIN config.Stages}
DeclaredActions == {config.Actions[i].Name : i \in DOMAIN config.Actions}
StepOfUndeclaredAction == \E s \in AllSteps : s.Action \notin DeclaredActions
\* An absent on_error is the default stop; a given value must be stop or warn.
BadOnError == \E s \in AllSteps : s.OnError \notin {"", "stop", "warn"}
BadOnly ==
    \E s \in AllSteps : \E k \in DOMAIN s.Only :
       s.Only[k] \notin {"release", "prerelease", "patch", "minor", "major"}

Defective ==
    \/ EmptyProjectName \/ ActionWithEmptyName \/ ActionNotExactlyOne
    \/ DuplicateActionName \/ StageWithoutSteps \/ StepOfUndeclaredAction
    \/ BadOnError \/ BadOnly

\* C21 - Manifest validation: once Validate has returned, it has returned an
\* error if the manifest has one of the eight defects, and nil if it has none
\* of them and declares at least one action.
C21_ManifestValidation ==
    validateErr # "unset" =>
       /\ Defective => validateErr # "nil"
       /\ (~Defective /\ Len(config.Actions) >= 1) => validateErr = "nil"

\* C21 witness: Validate accepted a manifest with two actions and a two-step
\* stage carrying on_error and only values.
C21_Witness ==
    /\ validateErr = "nil"
    /\ Len(config.Actions) = 2
    /\ \E n \in DOMAIN config.Stages :
          /\ Len(config.Stages[n].Steps) = 2
          /\ \E i \in 1..2 : config.Stages[n].Steps[i].OnError = "warn"
          /\ \E i \in 1..2 : config.Stages[n].Steps[i].Only # << >>

\* C21 witness of a rejection: the only defect is an on_error value that is
\* neither stop nor warn, and Validate returned the onerror error.
C21_WitnessRejected ==
    /\ validateErr = "step has invalid onerror value"
    /\ BadOnError
    /\ ~(\/ EmptyProjectName \/ ActionWithEmptyName \/ ActionNotExactlyOne
         \/ DuplicateActionName \/ StageWithoutSteps \/ StepOfUndeclaredAction
         \/ BadOnly)

----------------------------------------------------------------------------
(* The reporter, the summary and the scheduler of a streaming run *)

\* C22 - Reporter safety: at most one status line is emitted per step; the
\* line of a step is its recorded Result; and every step declared before a
\* step whose line has been emitted has completed.
C22_OneLinePerStep ==
    \A i, j \in DOMAIN printed : i # j => printed[i].Name # printed[j].Name
C22_AfterOwnResult ==
    \A i \in DOMAIN printed :
       resultMap[printed[i].Name] = printed[i] /\ ResultsOf(printed[i].Name) # {}
C22_AfterEarlierCompleted ==
    \A i \in DOMAIN printed : \A m \in 1..(printed[i].Name - 1) : completed[m]
C22_ReporterSafety ==
    C22_OneLinePerStep /\ C22_AfterOwnResult /\ C22_AfterEarlierCompleted

\* A Result is in flight: on the channel, in the hands of the handler, or
\* still to be sent by a spawned task.
InFlight == resultChan # << >> \/ result # NoResult \/ wg # {}

\* C23 - Summary is last and complete: PrintSummary is called at most once in
\* a run and exactly once by the time RunStage returns from a scheduled run;
\* at the call the result handler has finished, no Result is in flight, and
\* the list it receives holds every Result recorded and one for every action
\* that ran; after the call no status line is emitted and no Result appears.
C23_SummaryCalledAtReturn == RunEnded => summary # "unset"
C23_SummaryComplete ==
    summary # "unset" =>
       /\ hpc = "done" /\ ~InFlight
       /\ summary = results
       /\ \A n \in Names : (n \in ran \/ resultMap[n] # NoResult) =>
             \E i \in DOMAIN summary : summary[i].Name = n
C23_SummaryOnceAndLast ==
    summary # "unset" => UNCHANGED <<summary, printed, results, resultMap, resultChan>>
----------------------------------------------------------------------------
(* Runs under fair scheduling of the goroutines *)

\* Stages whose require entries all name steps of the stage and form no cycle.
AcyclicPlainStages ==
    {st \in PlainStages :
        /\ \A v \in Names : st[v].Require \subseteq Names
        /\ ~detectCycles([n \in Names |-> [Dependencies |-> st[n].Require]],
                         SortedSeq(Names)).err}

\* A run of an acyclic stage: any acyclic require relation without gates, or
\* a chain with one step carrying a profile.
InitFair ==
    /\ \/ steps \in AcyclicPlainStages /\ versionType = "release"
       \/ steps \in ProfiledStages /\ versionType = "prerelease"
    /\ nodeAction = CustomActions
    /\ InitRun
    /\ cancelled = FALSE
    /\ HookIdle
    /\ InstallIdle
    /\ ResolveIdle
    /\ UnitIdle

\* The Go scheduler lets every goroutine that can take a step take one, and
\* every action returns: the run does not stop while a step is possible.
SpecFair == InitFair /\ [][Next]_vars /\ WF_vars(Next)

\* The Results sent on resultChan so far, and the sends still to come from
\* the spawned tasks and from the branch the main loop is in.
NumSent == Len(resultChan) + Len(results) + (IF hpc = "locked" THEN 1 ELSE 0)
PendingSends == Cardinality(wg) + (IF pc = "decide" THEN 1 ELSE 0)

\* C24 - Scheduler termination: in a run of an acyclic stage under fair
\* scheduling, the Results sent and still to be sent never exceed len(dag),
\* the capacity of resultChan, so that no send blocks; and eventually the main
\* loop has exited, the handler has drained the channel and closed done, and
\* RunStage has returned.
C24_NoSendBlocks ==
    Scheduled => NumSent + PendingSends <= Cardinality(DOMAIN dag)
C24_Returned ==
    pc = "done" /\ hpc = "done" /\ resultChan = << >> /\ closed /\ summary # "unset"
C24_SchedulerTermination == []C24_NoSendBlocks /\ <>C24_Returned

\* What holds of every fair run: no send blocks, and the run stops, by the
\* return of RunStage or by the death of the process.
C24_Stopped == C24_Returned \/ pc = "crashed"
C24_RunStops == []C24_NoSendBlocks /\ <>C24_Stopped

----------------------------------------------------------------------------
(* The accesses to the shared maps between two steps of a goroutine *)

\* The maps the main goroutine reads while it is between two steps:
\* hasFailedDependency(node, failed) ranges over node.Dependencies and looks
\* each one up in failed.  Its other accesses are inside the atomic critical
\* sections GetReadySteps and MarkExecuting, and after <-done.
MainReads == IF pc = "decide" /\ dag[nodeName].Dependencies # {} THEN {"failed"} ELSE {}

\* The maps the handler goroutine writes and reads while it is between two
\* steps: the updates between mu.Lock() and mu.Unlock(), then
\* displayStepImmediately after mu.Unlock().
HandlerWrites ==
    IF hpc = "locked"
      THEN {"resultMap", "completed", "executing"}
           \cup (IF result.Status = StatusError THEN {"failed"} ELSE {})
    ELSE IF hpc = "display"
           /\ canDisplayStepImmediately(result.Name, completed)
           /\ resultMap[result.Name] # NoResult
      THEN {"displayed"}
    ELSE {}
HandlerReads ==
    IF hpc = "display"
      THEN (IF result.Name > 1 THEN {"completed"} ELSE {})
           \cup (IF canDisplayStepImmediately(result.Name, completed)
                   THEN {"resultMap"} ELSE {})
      ELSE {}

\* Who holds the scheduler mutex between two steps.
MuHeldByHandler == hpc = "locked"
MuHeldByMain == FALSE

\* C25 - Single-mutex discipline: a goroutine that is reading or writing one
\* of the shared maps holds the scheduler mutex, and no goroutine accesses a
\* map that the other one is writing.
C25_AccessUnderMutex ==
    /\ MainReads # {} => MuHeldByMain
    /\ HandlerReads \cup HandlerWrites # {} => MuHeldByHandler
C25_NoConcurrentWrite == MainReads \cap HandlerWrites = {}
C25_SingleMutexDiscipline == C25_AccessUnderMutex /\ C25_NoConcurrentWrite

----------------------------------------------------------------------------
\* C26 - Node state machine: a node is never executing and completed at once
\* (it is pending, executing or completed); failed is a subset of completed;
\* completed is never reset; a node becomes executing only from pending, when
\* it has never been dispatched (no task, no run, no Result of it anywhere);
\* it leaves executing only to become completed and becomes completed only
\* from executing; a task is spawned only for an executing node that has no
\* task and has not run.
Pending(n) == ~executing[n] /\ ~completed[n]
C26_OneState ==
    Scheduled => \A n \in Names : ~(executing[n] /\ completed[n]) /\ (failed[n] => completed[n])
C26_Moves ==
    Scheduled =>
      \A n \in Names :
         /\ completed[n] => completed'[n]
         /\ (~executing[n] /\ executing'[n]) =>
               Pending(n) /\ n \notin wg \cup ran /\ ResultsAnywhere(n) = {}
         /\ (executing[n] /\ ~executing'[n]) => completed'[n]
         /\ (~completed[n] /\ completed'[n]) => executing[n]
         /\ (n \in wg' \ wg) => executing[n] /\ n \notin ran
         /\ (n \in ran' \ ran) => executing[n] /\ n \in wg
C26_NodeStateMachine == []C26_OneState /\ [][C26_Moves]_vars

\* C26 witness: one node completed and failed, one executing with its task
\* spawned, one pending.
C26_Witness ==
    /\ Scheduled
    /\ \E a, b, c \in Names :
          /\ completed[a] /\ failed[a]
          /\ executing[b] /\ b \in wg
          /\ Pending(c) /\ ResultsAnywhere(c) = {}

----------------------------------------------------------------------------
\* The main loop is in wg.Wait(): the range over the ready steps has ended
\* and a task of the wave has not called wg.Done.
InWgWait == pc = "range" /\ readySteps = {} /\ wg # {}

\* Step v can be dispatched: it is pending and its requires are completed.
ReadyToDispatch(v) == Pending(v) /\ allDependenciesCompleted(dag[v], completed)

\* C27 - Parallelism bounded only by dependencies: once a spawned task has
\* completed, a step that can be dispatched never has the main loop waiting
\* in wg.Wait() for tasks of steps it does not depend on.
C27_NoWaitForUnrelated ==
    Scheduled =>
      \A v \in Names :
         (ReadyToDispatch(v) /\ \E u \in ran : completed[u]) =>
            ~(InWgWait /\ wg \cap ({v} \cup Ancestors(v)) = {})

----------------------------------------------------------------------------
(* The graph functions called on their own: buildDAG with detectCycles, and  *)
(* topologicalSort (internal/exec/executor.go).                              *)
(*                                                                           *)
(* Here a step is named by its action, several steps of the stage can use    *)
(* the same action, and Step.Require and DAGNode.Dependencies are the lists  *)
(* the manifest gives, in their order and with their repetitions.            *)

\* Largest number of steps of the stage given to buildDAG.
MaxGraphSteps == 3
\* Largest length of a require list.
MaxGraphRequire == 2

GraphNames == {"a", "b", "c"}

\* The elements of a list.
Elems(l) == {l[i] : i \in DOMAIN l}

\* buildDAG, first loop: one node per step, stored under step.Action.
RECURSIVE createNodes(_, _, _)
createNodes(stepSeq, actions, d) ==
    IF stepSeq = << >> THEN [err |-> "nil", dag |-> d]
    ELSE LET step == Head(stepSeq)
         IN  IF step.Action \notin actions
               THEN [err |-> "action not found", dag |-> << >>]
               ELSE createNodes(Tail(stepSeq), actions,
                      [n \in DOMAIN d \cup {step.Action} |->
                          IF n = step.Action
                            THEN [Step |-> step, Dependencies |-> step.Require,
                                  Dependents |-> << >>]
                            ELSE d[n]])

\* A loop body that records the dependency in the node's own Dependents.
linkDepOwn(d, name, dep) == [d EXCEPT ![name].Dependents = Append(@, dep)]
\* buildDAG, second loop, body of the inner loop for an existing dependency:
\* depNode.Dependents = append(depNode.Dependents, node.Step.Action)
linkDep(d, name, dep) == [d EXCEPT ![dep].Dependents = Append(@, name)]

RECURSIVE linkDeps(_, _, _)
linkDeps(d, name, deps) ==
    IF deps = << >> THEN [err |-> "nil", dag |-> d]
    ELSE IF Head(deps) \in DOMAIN d
      THEN linkDeps(linkDep(d, name, Head(deps)), name, Tail(deps))
      ELSE [err |-> "dependency not found", dag |-> << >>]

\* buildDAG, second loop: the range over the dag map in the given order.
RECURSIVE linkNodes(_, _)
linkNodes(d, order) ==
    IF order = << >> THEN [err |-> "nil", dag |-> d]
    ELSE LET r == linkDeps(d, Head(order), d[Head(order)].Dependencies)
         IN  IF r.err # "nil" THEN r ELSE linkNodes(r.dag, Tail(order))

\* detectCycles on lists of dependencies.
RECURSIVE detectCyclesDfs(_, _, _, _)
RECURSIVE detectCyclesDeps(_, _, _, _)
\* The dfs of detectCycles with the visited test placed before the recStack test.
detectCyclesDfsVisitedFirst(d, n, visited, recStack) ==
    IF n \in visited THEN [err |-> FALSE, node |-> "", visited |-> visited]
    ELSE IF n \in recStack THEN [err |-> TRUE, node |-> n, visited |-> visited]
    ELSE detectCyclesDeps(d, d[n].Dependencies, visited \cup {n}, recStack \cup {n})
detectCyclesDfs(d, n, visited, recStack) ==
    IF n \in recStack THEN [err |-> TRUE, node |-> n, visited |-> visited]
    ELSE IF n \in visited THEN [err |-> FALSE, node |-> "", visited |-> visited]
    ELSE detectCyclesDeps(d, d[n].Dependencies, visited \cup {n}, recStack \cup {n})
detectCyclesDeps(d, deps, visited, recStack) ==
    IF deps = << >> THEN [err |-> FALSE, node |-> "", visited |-> visited]
    ELSE LET r == detectCyclesDfs(d, Head(deps), visited, recStack)
         IN  IF r.err THEN r ELSE detectCyclesDeps(d, Tail(deps), r.visited, recStack)

RECURSIVE detectCyclesLoop(_, _, _)
detectCyclesLoop(d, order, visited) ==
    IF order = << >> THEN [err |-> FALSE, node |-> ""]
    ELSE IF Head(order) \in visited THEN detectCyclesLoop(d, Tail(order), visited)
    ELSE LET r == detectCyclesDfs(d, Head(order), visited, {})
         IN  IF r.err THEN [err |-> TRUE, node |-> r.node]
             ELSE detectCyclesLoop(d, Tail(order), r.visited)

\* topologicalSort: st is the pair of visited and result.
RECURSIVE topologicalSortDfs(_, _, _)
RECURSIVE topologicalSortDeps(_, _, _)
\* A dfs that appends the node before it visits the dependencies.
topologicalSortDfsPreOrder(d, n, st) ==
    IF n \in st.visited THEN st
    ELSE topologicalSortDeps(d, d[n].Dependencies,
            [visited |-> st.visited \cup {n}, result |-> Append(st.result, n)])
topologicalSortDfs(d, n, st) ==
    IF n \in st.visited THEN st
    ELSE LET after == topologicalSortDeps(d, d[n].Dependencies,
                         [st EXCEPT !.visited = @ \cup {n}])
         IN  [after EXCEPT !.result = Append(@, n)]
topologicalSortDeps(d, deps, st) ==
    IF deps = << >> THEN st
    ELSE topologicalSortDeps(d, Tail(deps), topologicalSortDfs(d, Head(deps), st))

RECURSIVE topologicalSortLoop(_, _, _)
topologicalSortLoop(d, order, st) ==
    IF order = << >> THEN st
    ELSE topologicalSortLoop(d, Tail(order), topologicalSortDfs(d, Head(order), st))

topologicalSort(d, order) ==
    topologicalSortLoop(d, order, [visited |-> {}, result |-> << >>]).result

GraphStepPool == [Action : GraphNames, Require : SeqsAtMost(GraphNames, MaxGraphRequire)]

outsideGraph ==
    <<stageVars, cancelled, hookVars, installVars, resolveVars, validateVars, cliVars>>

\* buildDAG is called with any stage over three action names, the manifest
\* declaring all of them or all but one.
InitGraph ==
    /\ graphSteps \in SeqsAtMost(GraphStepPool, MaxGraphSteps)
    /\ graphActions \in {GraphNames, GraphNames \ {"c"}}
    /\ graphPc = "buildDAG"
    /\ graph = << >>
    /\ graphErr = "unset"
    /\ cycleNode = ""
    /\ sorted = << >>
    /\ StageIdle
    /\ HookIdle
    /\ InstallIdle
    /\ ResolveIdle
    /\ ValidateIdle
    /\ CliIdle

\* buildDAG up to the cycle check: the nodes and the dependency relationships.
GraphBuildNodes ==
    /\ graphPc = "buildDAG"
    /\ LET c == createNodes(graphSteps, graphActions, << >>)
       IN  IF c.err # "nil"
             THEN /\ graphErr' = c.err
                  /\ graphPc' = "done"
                  /\ UNCHANGED graph
             ELSE \E order \in Orders(DOMAIN c.dag) :
                     LET l == linkNodes(c.dag, order)
                     IN  IF l.err # "nil"
                           THEN /\ graphErr' = l.err
                                /\ graphPc' = "done"
                                /\ UNCHANGED graph
                           ELSE /\ graph' = l.dag
                                /\ graphPc' = "detectCycles"
                                /\ UNCHANGED graphErr
    /\ UNCHANGED <<graphSteps, graphActions, cycleNode, sorted, outsideGraph>>

\* if err := e.detectCycles(dag); err != nil { return nil, ... }; return dag, nil
GraphDetectCycles ==
    /\ graphPc = "detectCycles"
    /\ \E order \in Orders(DOMAIN graph) :
          LET r == detectCyclesLoop(graph, order, {})
          IN  IF r.err
                THEN /\ graphErr' = "circular dependency detected"
                     /\ cycleNode' = r.node
                     /\ graphPc' = "done"
                ELSE /\ graphErr' = "nil"
                     /\ graphPc' = "topologicalSort"
                     /\ UNCHANGED cycleNode
    /\ UNCHANGED <<graphSteps, graphActions, graph, sorted, outsideGraph>>

\* order, err := e.topologicalSort(dag) on the graph buildDAG returned
GraphTopologicalSort ==
    /\ graphPc = "topologicalSort"
    /\ \E order \in Orders(DOMAIN graph) : sorted' = topologicalSort(graph, order)
    /\ graphPc' = "done"
    /\ UNCHANGED <<graphSteps, graphActions, graph, graphErr, cycleNode, outsideGraph>>

NextGraph ==
    \/ GraphBuildNodes
    \/ GraphDetectCycles
    \/ GraphTopologicalSort

SpecGraph == InitGraph /\ [][NextGraph]_vars

\* The require relation of a graph, read from the nodes: the dependencies of
\* n, and what is reachable from a set along them in at most k steps.
DepsOf(d, n) == Elems(d[n].Dependencies)
RECURSIVE GraphClosure(_, _, _)
GraphClosure(d, S, k) ==
    IF k = 0 THEN S
    ELSE GraphClosure(d, S \cup UNION {DepsOf(d, w) : w \in S}, k - 1)
GraphAncestors(d, n) == GraphClosure(d, DepsOf(d, n), Cardinality(DOMAIN d))
OnCycle(d, n) == n \in GraphAncestors(d, n)

\* detectCycles has been called on the graph and has returned.
CyclesChecked == graphErr \in {"nil", "circular dependency detected"}

\* C28 - Cycle detection is exact: on a graph whose require entries all name
\* nodes, detectCycles returns an error iff some node lies on a directed cycle
\* of the require relation (a self-loop included), and the node it names lies
\* on one.
C28_CycleDetectionExact ==
    CyclesChecked =>
       /\ graphErr = "circular dependency detected" <=> \E n \in DOMAIN graph : OnCycle(graph, n)
       /\ graphErr = "circular dependency detected" =>
             cycleNode \in DOMAIN graph /\ OnCycle(graph, cycleNode)

\* C28 witness: detectCycles named a node of a cycle of length two or more in
\* a graph that also has a node outside every cycle.
C28_Witness ==
    /\ graphErr = "circular dependency detected"
    /\ cycleNode \notin DepsOf(graph, cycleNode)
    /\ \E n \in DOMAIN graph : ~OnCycle(graph, n)

\* C29 - Graph construction: the graph of a stage accepted by buildDAG has
\* exactly the step actions as nodes; the Step of a node is a step of the
\* stage with that action (the last one declared) and its Dependencies are
\* that step's require list; v is in Dependents(u) iff u is in
\* Dependencies(v); and a stage with a step whose action the manifest does
\* not declare is rejected with "action not found".
LastStepOf(n) ==
    graphSteps[CHOOSE i \in DOMAIN graphSteps :
                  /\ graphSteps[i].Action = n
                  /\ \A j \in DOMAIN graphSteps : graphSteps[j].Action = n => j <= i]
C29_GraphConstruction ==
    /\ graphErr = "nil" =>
          /\ DOMAIN graph = {graphSteps[i].Action : i \in DOMAIN graphSteps}
          /\ \A n \in DOMAIN graph :
                /\ graph[n].Step = LastStepOf(n)
                /\ graph[n].Dependencies = graph[n].Step.Require
          /\ \A u, v \in DOMAIN graph :
                v \in Elems(graph[u].Dependents) <=> u \in DepsOf(graph, v)
    /\ (graphPc # "buildDAG" /\ \E i \in DOMAIN graphSteps : graphSteps[i].Action \notin graphActions)
          => graphErr = "action not found" /\ graph = << >>

\* C29 witness: an accepted graph of three nodes in which one node has two
\* dependents and another has two dependencies.
C29_Witness ==
    /\ graphErr = "nil"
    /\ Cardinality(DOMAIN graph) = 3
    /\ \E u \in DOMAIN graph : Cardinality(Elems(graph[u].Dependents)) = 2
    /\ \E v \in DOMAIN graph : Cardinality(DepsOf(graph, v)) = 2

\* C30 - Topological sort: the sequence topologicalSort returns for an acyclic
\* graph holds every node exactly once, and every node comes after all of
\* its Dependencies.
C30_TopologicalSort ==
    (graphPc = "done" /\ graphErr = "nil") =>
       /\ Len(sorted) = Cardinality(DOMAIN graph)
       /\ Elems(sorted) = DOMAIN graph
       /\ \A i \in DOMAIN sorted : \A dep \in DepsOf(graph, sorted[i]) :
             \E j \in 1..(i - 1) : sorted[j] = dep

\* C30 witness: the sort of a graph in which a node is reachable from another
\* one along two paths.
C30_Witness ==
    /\ graphPc = "done" /\ graphErr = "nil" /\ Len(sorted) = 3
    /\ \E u, v, w \in DOMAIN graph :
          /\ DepsOf(graph, w) = {u, v}
          /\ DepsOf(graph, v) = {u}
          /\ DepsOf(graph, u) = {}

----------------------------------------------------------------------------
(* Runs of manifests with built-in actions *)

UnknownUses == "lint@unknown"

\* An action with a run command, one with a registered built-in, and one
\* whose uses names no registered runner.
ActionKinds ==
    { [Uses |-> "", Run |-> "make test"],
      [Uses |-> "git@untracked", Run |-> ""],
      [Uses |-> UnknownUses, Run |-> ""] }

\* A run of an acyclic stage whose actions are of any kind, or of a chain
\* with one step carrying a profile and one action that is not a run command.
InitUses ==
    /\ \/ /\ steps \in AcyclicPlainStages
          /\ versionType = "release"
          /\ nodeAction \in [Names -> ActionKinds]
       \/ /\ steps \in ProfiledStages
          /\ versionType = "prerelease"
          /\ \E s \in Names : \E a \in ActionKinds :
                nodeAction = [n \in Names |-> IF n = s THEN a ELSE CustomActions[n]]
    /\ InitRun
    /\ cancelled = FALSE
    /\ HookIdle
    /\ InstallIdle
    /\ ResolveIdle
    /\ UnitIdle

SpecUses == InitUses /\ [][Next]_vars

\* The steps whose action has a uses identifier that is not in the registry.
UnknownBuiltIns == {n \in Names : nodeAction[n].Uses \notin Registry \cup {""}}

\* C31, first part - Unknown built-in at dispatch: buildDAG accepts a stage
\* with an unknown uses identifier; the step has no ERROR Result before its
\* action is given to executeAction, and every Result it has after that is
\* ERROR with the unknown-built-in message.
C31_ErrorAtDispatch ==
    /\ pc # "RunStage" => Scheduled
    /\ \A n \in UnknownBuiltIns :
          /\ n \in ran =>
                \A r \in ResultsAnywhere(n) :
                   r.Status = StatusError /\ r.Message = MsgUnknownBuiltIn
          /\ n \notin ran =>
                \A r \in ResultsAnywhere(n) : r.Status # StatusError

\* C31, second part: a run in which a step with an unknown uses identifier
\* was dispatched does not abort.
C31_RunDoesNotAbort == UnknownBuiltIns \cap ran # {} => pc # "crashed"

\* C31, third part: when the run has ended, a step with an unknown uses
\* identifier was dispatched and only such steps ended ERROR, every step
\* whose gate is met and that does not depend on a step with an unknown uses
\* identifier, at any distance, was executed.
C31_IndependentStepsExecute ==
    (/\ RunEnded
     /\ UnknownBuiltIns \cap ran # {}
     /\ \A i \in DOMAIN results :
           results[i].Status = StatusError => results[i].Name \in UnknownBuiltIns) =>
       \A v \in Names \ UnknownBuiltIns :
          (/\ Ancestors(v) \cap UnknownBuiltIns = {}
           /\ shouldExecuteStep(dag[v], versionType)) => v \in ran

\* C31 - Unknown built-in at dispatch: a step whose action has a uses
\* identifier that is not in the registry gets a Result ERROR when it is
\* dispatched, the run does not abort, and the steps that do not depend on it
\* are executed.
C31_UnknownBuiltInAtDispatch ==
    C31_ErrorAtDispatch /\ C31_RunDoesNotAbort /\ C31_IndependentStepsExecute

----------------------------------------------------------------------------
(* The end of RunStage: the stage result and UI.PrintSummary *)

\* Largest number of Results in the list RunStage reports.
MaxResults == 4

VerdictFailed == "Some checks failed. Please fix the issues above before pushing."
VerdictWarnings == "Some checks produced warnings. Review the output above."
VerdictPassed == "All checks passed successfully!"

\* for _, result := range results { switch result.Status { ... } }
RECURSIVE countStatuses(_, _)
countStatuses(rs, c) ==
    IF rs = << >> THEN c
    ELSE LET st == Head(rs).Status
         IN  countStatuses(Tail(rs),
                 IF st = StatusOK THEN [c EXCEPT !.ok = @ + 1]
                 ELSE IF st = StatusWarn THEN [c EXCEPT !.warn = @ + 1]
                 ELSE IF st = StatusError THEN [c EXCEPT !.error = @ + 1]
                 ELSE IF st = StatusSkipped THEN [c EXCEPT !.skipped = @ + 1]
                 ELSE c)

\* The verdict taken with the warning count tested before the error count.
verdictLineWarnFirst(c) ==
    IF c.warn > 0 THEN VerdictWarnings
    ELSE IF c.error > 0 THEN VerdictFailed
    ELSE VerdictPassed
verdictLine(c) ==
    IF c.error > 0 THEN VerdictFailed
    ELSE IF c.warn > 0 THEN VerdictWarnings
    ELSE VerdictPassed

\* The statuses a Result handed to PrintSummary carries: those the executors
\* and the runners assign, and WARN.
ReportedStatuses == {StatusOK, StatusWarn, StatusError, StatusSkipped}

\* The lists of at most n Results, one per step.
ResultLists(n) ==
    UNION {{[i \in 1..k |-> [Name |-> i, Status |-> st[i], Message |-> ""]] :
               st \in [1..k -> ReportedStatuses]} : k \in 0..n}

outsideReport ==
    <<stageVars, cancelled, hookVars, installVars, resolveVars, validateVars, graphVars,
      mainVars, manifestVars, verboseVars>>

InitReport ==
    /\ reportResults \in ResultLists(MaxResults)
    /\ reportSuccess = "unset"
    /\ counts = NoCounts
    /\ verdict = ""
    /\ StageIdle
    /\ HookIdle
    /\ InstallIdle
    /\ ResolveIdle
    /\ ValidateIdle
    /\ GraphIdle
    /\ MainIdle
    /\ ManifestIdle
    /\ VerboseIdle

\* The end of RunStage: success := err == nil && !hasErrors(results), with
\* err == nil as executeDAGWithStreaming returns it; PrintStageResult;
\* e.ui.PrintSummary(results)
ReportStage ==
    /\ verdict = ""
    /\ reportSuccess' = ~hasErrors(reportResults)
    /\ counts' = countStatuses(reportResults, NoCounts)
    /\ verdict' = verdictLine(counts')
    /\ UNCHANGED <<outsideReport, reportResults>>

NextReport == ReportStage

SpecReport == InitReport /\ [][NextReport]_vars

\* The number of Results with status st in the reported list.
NumWithStatus(st) ==
    Cardinality({i \in DOMAIN reportResults : reportResults[i].Status = st})

\* C32 - Summary verdict: once PrintSummary has printed, its four counts are
\* the numbers of OK, WARN, ERROR and SKIPPED Results and add up to the number
\* of Results; the verdict is the failure line iff the ERROR count is
\* positive, else the warning line iff the WARN count is positive, else the
\* success line; and the failure verdict coincides with hasErrors(results),
\* the negation of the stage result.
C32_SummaryVerdict ==
    verdict # "" =>
       /\ counts.ok = NumWithStatus(StatusOK)
       /\ counts.warn = NumWithStatus(StatusWarn)
       /\ counts.error = NumWithStatus(StatusError)
       /\ counts.skipped = NumWithStatus(StatusSkipped)
       /\ counts.ok + counts.warn + counts.error + counts.skipped = Len(reportResults)
       /\ (verdict = VerdictFailed <=> counts.error > 0)
       /\ (verdict = VerdictWarnings <=> counts.error = 0 /\ counts.warn > 0)
       /\ (verdict = VerdictPassed <=> counts.error = 0 /\ counts.warn = 0)
       /\ (verdict = VerdictFailed <=> hasErrors(reportResults))
       /\ (verdict = VerdictFailed <=> reportSuccess = FALSE)

\* C32 witness: the summary of a list with a WARN, an ERROR and a SKIPPED
\* Result, whose verdict is the failure line.
C32_Witness ==
    /\ verdict = VerdictFailed
    /\ counts.warn > 0
    /\ counts.skipped > 0
    /\ counts.ok > 0
    /\ reportSuccess = FALSE

----------------------------------------------------------------------------
(* The push context parseGitPushInfo derives *)

\* The names, in input order, of the refs of rs whose local_ref begins with
\* prefix, the prefix removed.
RECURSIVE NamesUnder(_, _)
NamesUnder(rs, prefix) ==
    IF rs = << >> THEN << >>
    ELSE LET l == Head(rs).LocalRef
         IN  (IF Len(l) >= 1 /\ l[1] = prefix THEN <<Tail(l)>> ELSE << >>)
                 \o NamesUnder(Tail(rs), prefix)

\* C33 - Push-context derivation: once parseGitPushInfo has been called on
\* the parsed refs, a missing argv[1] has made it fail and runGitHook return
\* the error; otherwise IsDelete is true iff some ref has a local_sha of
\* forty zeros, Tags and Branches are the names, prefix removed and in input
\* order, of exactly the refs under refs/tags/ and refs/heads/, the remote
\* name is argv[1] and the remote URL is argv[2] if present and empty if not.
C33_PushContext ==
    "parseGitPushInfo" \in calls =>
       IF argc < 2
         THEN hookErr = "failed to parse Git push info" /\ pushInfo = NoPushInfo
         ELSE /\ pushInfo.IsDelete <=> \E i \in DOMAIN refs : refs[i].LocalSHA = ZeroSHA
              /\ pushInfo.Tags = NamesUnder(refs, TagsPrefix)
              /\ pushInfo.Branches = NamesUnder(refs, HeadsPrefix)
              /\ pushInfo.RemoteName = Argv[2]
              /\ pushInfo.RemoteURL = IF argc > 2 THEN Argv[3] ELSE ""

\* C33 witness: a push of a deleted tag followed by a live branch, with the
\* remote name and no remote URL on the command line.
C33_Witness ==
    /\ "parseGitPushInfo" \in calls
    /\ argc = 2
    /\ Len(refs) = 2
    /\ refs[1].LocalSHA = ZeroSHA
    /\ refs[2].LocalSHA # ZeroSHA
    /\ pushInfo.IsDelete
    /\ pushInfo.Tags = << <<"v", "1">> >>
    /\ pushInfo.Branches = << <<"main">> >>
    /\ pushInfo.RemoteName = "origin"
    /\ pushInfo.RemoteURL = ""

----------------------------------------------------------------------------
(* main: the choice between the Git hook and the command line *)

\* The first arguments isGitHook compares os.Args[1] with.
KnownFirstArgs ==
    {"test", "list-uses", "install", "-h", "--help", "-v", "--version", "-d", "--debug"}

\* isGitHook: mode is what os.Stdin.Stat() finds, "error" when it fails; a
\* terminal is a character device, a pipe and a file are not.
isGitHook(arg, mode) ==
    IF arg # NoArg /\ arg \in KnownFirstArgs THEN FALSE
    ELSE IF mode = "error" THEN FALSE
    ELSE mode # "terminal"

\* A main that checks and updates the hook before it runs it.
hookFileOfHookModeChecked(bin, hook, repo) == checkAndUpdateGitHook(bin, hook, repo).file
\* .git/hooks/pre-push as main leaves it when it takes the hook branch: it
\* calls runGitHook directly, without an update check.
hookFileOfHookMode(bin, hook, repo) == hook

\* The subcommands and flags of the command line.
DocumentedArgs ==
    {"install", "test", "list-uses", "--version", "-V", "--verbose", "-v", "--debug", "-d",
     "--help", "-h"}

\* What os.Args[1] can be: absent, the remote name Git passes, or a
\* subcommand or flag.
FirstArgs == {NoArg, "origin"} \cup DocumentedArgs

\* The command rootCmd.Execute() can resolve: the subcommand named first, any
\* command when a persistent flag comes first, the root command otherwise.
Commands(arg) ==
    IF arg \in {"install", "test", "list-uses"} THEN {arg}
    ELSE IF arg \in {"--verbose", "-v", "--debug", "-d"}
      THEN {"root", "install", "test", "list-uses"}
    ELSE {"root"}

outsideMain ==
    <<stageVars, cancelled, resolveVars, validateVars, graphVars, reportVars, manifestVars,
      verboseVars>>

\* A start of the binary in a repository whose current tag is v1 and whose
\* current branch is main, with any hook file in place.
InitMain ==
    /\ firstArg \in FirstArgs
    /\ stdinMode \in {"terminal", "pipe", "file", "error"}
    /\ mainPc = "main"
    /\ stdin \in IF stdinMode \in {"pipe", "file"}
                   THEN SeqsUpTo(StdinLines, MaxLines) ELSE {<< >>}
    /\ argc \in IF firstArg = NoArg THEN {1} ELSE {2, 3}
    /\ currentTag = [err |-> FALSE, out |-> <<"v", "1">>]
    /\ currentBranch = [err |-> FALSE, out |-> <<"main">>]
    /\ hookPc = "none"
    /\ lineNo = 0
    /\ refs = << >>
    /\ pushInfo = NoPushInfo
    /\ hookErr = "unset"
    /\ calls = {}
    /\ binary = "pre-push 1.4.0"
    /\ hookFile \in {Missing, File("pre-push 1.3.0", Mode0755), File(binary, Mode0755)}
    /\ inRepo = TRUE
    /\ impl = "checkAndUpdateGitHook"
    /\ installs = << >>
    /\ StageIdle
    /\ ResolveIdle
    /\ ValidateIdle
    /\ GraphIdle
    /\ ReportIdle
    /\ ManifestIdle
    /\ VerboseIdle

\* main: if isGitHook() { runGitHook() ... } else the command line follows
Main ==
    /\ mainPc = "main"
    /\ IF isGitHook(firstArg, stdinMode)
         THEN /\ mainPc' = "hook"
              /\ hookPc' = "readGitRefs"
              /\ hookFile' = hookFileOfHookMode(binary, hookFile, inRepo)
         ELSE /\ mainPc' = "cli"
              /\ UNCHANGED <<hookPc, hookFile>>
    /\ UNCHANGED <<outsideMain, firstArg, stdinMode, stdin, argc, currentTag, currentBranch,
                   lineNo, refs, pushInfo, hookErr, calls, binary, inRepo, impl, installs>>

\* runGitHook has returned: os.Exit(1) on an error, return otherwise
MainHookReturn ==
    /\ mainPc = "hook"
    /\ hookPc = "exit"
    /\ mainPc' = "hookExit"
    /\ UNCHANGED <<outsideMain, hookVars, installVars, firstArg, stdinMode>>

\* rootCmd.Execute(): runInstall calls checkAndUpdateGitHook; runRoot, runTest
\* and runListUses do not touch the hook
RootExecute ==
    /\ mainPc = "cli"
    /\ mainPc' = "cliExit"
    /\ \E cmd \in Commands(firstArg) :
          IF cmd = "install"
            THEN LET r == checkAndUpdateGitHook(binary, hookFile, inRepo)
                 IN  /\ hookFile' = r.file
                     /\ installs' = Append(installs, Record(hookFile, r))
            ELSE UNCHANGED <<hookFile, installs>>
    /\ UNCHANGED <<outsideMain, hookVars, binary, inRepo, impl, firstArg, stdinMode>>

NextMain ==
    \/ Main
    \/ MainHookReturn
    \/ RootExecute
    \/ NextHook

SpecMain == InitMain /\ [][NextMain]_vars

\* main took the hook branch.
HookMode == mainPc \in {"hook", "hookExit"}

\* The functions that read, create or rewrite .git/hooks/pre-push.
HookFileFunctions ==
    {"checkAndUpdateGitHook", "isBinaryDifferent", "updateGitHook", "Installer.Install"}

\* C34 - Hook mode never self-installs: once main has taken the hook branch
\* no install operation is performed and runGitHook calls no function that
\* reads or writes .git/hooks/pre-push; the step into the hook branch and
\* every step after it leave the hook file as it was.
C34_NoInstallInHookMode ==
    HookMode => installs = << >> /\ calls \cap HookFileFunctions = {}
C34_HookFileUnchanged == HookMode' => hookFile' = hookFile
C34_HookModeNeverSelfInstalls ==
    [](C34_NoInstallInHookMode) /\ [][C34_HookFileUnchanged]_vars

\* C34 witness: a hook run that went through to RunStage and returned with
\* an outdated hook file still in place.
C34_Witness ==
    /\ mainPc = "hookExit"
    /\ "RunStage" \in calls
    /\ hookFile = File("pre-push 1.3.0", Mode0755)
    /\ hookFile.content # binary

\* C35 - CLI invocations are never mistaken for a hook: when os.Args[1] is a
\* documented subcommand or flag, main takes the command-line branch and
\* runGitHook is not started, whatever stdin is.
C35_CliNeverHook ==
    (mainPc # "main" /\ firstArg \in DocumentedArgs) =>
        mainPc \in {"cli", "cliExit"} /\ hookPc = "none"

----------------------------------------------------------------------------
(* Termination of the interpolation *)

\* C36 - Interpolation terminates: every call of resolveString, whatever the
\* input string and the context (a value holding a reference to its own key
\* included), returns a result or an error after finitely many iterations.
C36_InterpolationTerminates == <>Returned

----------------------------------------------------------------------------
(* config.ResolveVariables: the interpolation of the manifest's run strings *)

\* Largest number of actions of the manifest given to ResolveVariables.
MaxManifestActions == 2

\* resolveString as a function: the loop run to its return.
RECURSIVE resolveString(_, _)
resolveString(str, vs) ==
    LET r == resolveIteration(str, vs)
    IN  IF r.kind = "break" THEN [result |-> str, err |-> "nil"]
        ELSE IF r.kind = "return" THEN [result |-> << >>, err |-> r.err]
        ELSE resolveString(r.result, vs)

\* Contexts of one key whose value is plain text, empty, or a reference to a
\* key that is not in the context: resolveString returns on all of them.
ManifestContexts == [{KeyA} -> {<<"v">>, << >>, Reference(KeyB)}]

outsideManifest ==
    <<stageVars, cancelled, hookVars, installVars, validateVars, graphVars, reportVars,
      mainVars, verboseVars>>

InitManifest ==
    /\ runs \in SeqsAtMost(InputStrings, MaxManifestActions)
    /\ runsAtCall = runs
    /\ actionIndex = 1
    /\ resolveVariablesErr = "unset"
    /\ variables \in ManifestContexts
    /\ inputString = << >>
    /\ resolvePc = "none"
    /\ resolveResult = << >>
    /\ resolveErr = "unset"
    /\ StageIdle
    /\ HookIdle
    /\ InstallIdle
    /\ ValidateIdle
    /\ GraphIdle
    /\ ReportIdle
    /\ MainIdle
    /\ VerboseIdle

\* One iteration of for i := range config.Actions with an empty Run
ResolveVariablesSkip ==
    /\ resolveVariablesErr = "unset"
    /\ actionIndex <= Len(runs)
    /\ runs[actionIndex] = << >>
    /\ actionIndex' = actionIndex + 1
    /\ UNCHANGED <<outsideManifest, resolveVars, runs, runsAtCall, resolveVariablesErr>>

\* One iteration with a Run: resolved, err := resolveString(Run, variables);
\* return the error, or config.Actions[i].Run = resolved
ResolveVariablesAction ==
    /\ resolveVariablesErr = "unset"
    /\ actionIndex <= Len(runs)
    /\ runs[actionIndex] # << >>
    /\ LET r == resolveString(runs[actionIndex], variables)
       IN  IF r.err # "nil"
             THEN /\ resolveVariablesErr' = "failed to resolve variables in action"
                  /\ UNCHANGED <<runs, actionIndex>>
             ELSE /\ runs' = [runs EXCEPT ![actionIndex] = r.result]
                  /\ actionIndex' = actionIndex + 1
                  /\ UNCHANGED resolveVariablesErr
    /\ UNCHANGED <<outsideManifest, resolveVars, runsAtCall>>

\* return nil
ResolveVariablesReturn ==
    /\ resolveVariablesErr = "unset"
    /\ actionIndex > Len(runs)
    /\ resolveVariablesErr' = "nil"
    /\ UNCHANGED <<outsideManifest, resolveVars, runs, runsAtCall, actionIndex>>

NextManifest ==
    \/ ResolveVariablesSkip
    \/ ResolveVariablesAction
    \/ ResolveVariablesReturn

SpecManifest == InitManifest /\ [][NextManifest]_vars

ResolveVariablesFailed == resolveVariablesErr \notin {"unset", "nil"}

\* C37, what holds of an error return: the run string of the failing action
\* and of every action after it is as it was at the call.
C37_FailingAndLaterUnchanged ==
    ResolveVariablesFailed =>
        \A i \in actionIndex..Len(runs) : runs[i] = runsAtCall[i]

\* C37 - ResolveVariables is all-or-nothing: when it returns an error, the
\* run strings of all actions are the same as before the call.
C37_AllOrNothing == ResolveVariablesFailed => runs = runsAtCall

----------------------------------------------------------------------------
(* getVerboseLevel: the verbosity level from PRE_PUSH_VERBOSE and -v *)

\* Longest value of PRE_PUSH_VERBOSE.
MaxEnvLen == 3

\* Width of int in bits, scaled down so that a short numeral can be out of range.
IntSize == 8

MaxInt == 2 ^ (IntSize - 1) - 1

\* The characters of a value: signs, digits, and one that is neither.
EnvChars == {"-", "+", "0", "1", "2", "x"}

DigitValue == [ch \in {"0", "1", "2", "3", "4", "5", "6", "7", "8", "9"} |->
    CASE ch = "0" -> 0 [] ch = "1" -> 1 [] ch = "2" -> 2 [] ch = "3" -> 3 [] ch = "4" -> 4
      [] ch = "5" -> 5 [] ch = "6" -> 6 [] ch = "7" -> 7 [] ch = "8" -> 8 [] ch = "9" -> 9]

\* The digit loop of strconv.Atoi over s from character i with n accumulated:
\* a character that is no digit is a syntax error, a value past the cutoff a
\* range error.
RECURSIVE atoiDigits(_, _, _, _)
atoiDigits(s, i, n, cutoff) ==
    IF i > Len(s) THEN [n |-> n, err |-> "nil"]
    ELSE IF s[i] \notin DOMAIN DigitValue THEN [n |-> 0, err |-> "syntax"]
    ELSE IF n * 10 + DigitValue[s[i]] > cutoff THEN [n |-> cutoff, err |-> "range"]
    ELSE atoiDigits(s, i + 1, n * 10 + DigitValue[s[i]], cutoff)

\* strconv.Atoi: an optional sign, then at least one digit
Atoi(s) ==
    LET neg    == Len(s) > 0 /\ s[1] = "-"
        signed == Len(s) > 0 /\ s[1] \in {"-", "+"}
        body   == IF signed THEN Tail(s) ELSE s
        r      == atoiDigits(body, 1, 0, IF neg THEN MaxInt + 1 ELSE MaxInt)
    IN  IF Len(body) < 1 THEN [n |-> 0, err |-> "syntax"]
        ELSE [n |-> IF neg THEN 0 - r.n ELSE r.n, err |-> r.err]

\* getVerboseLevel with the flag consulted before the environment.
getVerboseLevelFlagFirst(env, flag) ==
    IF flag THEN 1
    ELSE IF env # << >>
      THEN LET r == Atoi(env) IN IF r.err = "nil" /\ r.n >= 0 THEN r.n ELSE 0
      ELSE 0

getVerboseLevel(env, flag) ==
    IF env # << >>
      THEN LET r == Atoi(env) IN IF r.err = "nil" /\ r.n >= 0 THEN r.n ELSE 0
      ELSE IF flag THEN 1 ELSE 0

outsideVerbose ==
    <<stageVars, cancelled, hookVars, installVars, resolveVars, validateVars, graphVars,
      reportVars, mainVars, manifestVars>>

InitVerbose ==
    /\ envVerbose \in SeqsAtMost(EnvChars, MaxEnvLen)
    /\ verbose \in BOOLEAN
    /\ verboseLevel = << >>
    /\ StageIdle
    /\ HookIdle
    /\ InstallIdle
    /\ ResolveIdle
    /\ ValidateIdle
    /\ GraphIdle
    /\ ReportIdle
    /\ MainIdle
    /\ ManifestIdle

GetVerboseLevel ==
    /\ verboseLevel = << >>
    /\ verboseLevel' = <<getVerboseLevel(envVerbose, verbose)>>
    /\ UNCHANGED <<outsideVerbose, envVerbose, verbose>>

NextVerbose == GetVerboseLevel

SpecVerbose == InitVerbose /\ [][NextVerbose]_vars

\* The numerals: digits only, with at most one sign in front.
IsDigits(s) == Len(s) > 0 /\ \A i \in 1..Len(s) : s[i] \in DOMAIN DigitValue

\* The number a digit string writes, by position.
RECURSIVE PositionalValue(_)
PositionalValue(s) ==
    IF s = << >> THEN 0
    ELSE DigitValue[s[1]] * 10 ^ (Len(s) - 1) + PositionalValue(Tail(s))

\* env writes an integer >= 0 that an int holds.
IsNonNegativeInt(env) ==
    \/ IsDigits(env) /\ PositionalValue(env) <= MaxInt
    \/ Len(env) > 1 /\ env[1] = "+" /\ IsDigits(Tail(env))
        /\ PositionalValue(Tail(env)) <= MaxInt
    \/ Len(env) > 1 /\ env[1] = "-" /\ IsDigits(Tail(env)) /\ PositionalValue(Tail(env)) = 0

NonNegativeIntValue(env) ==
    IF env[1] \in {"+", "-"} THEN PositionalValue(Tail(env)) ELSE PositionalValue(env)

\* C39 - getVerboseLevel returns an integer >= 0; a non-empty PRE_PUSH_VERBOSE
\* decides alone (a valid non-negative integer is returned as is, any other
\* value gives 0, whatever the -v flag); with it unset or empty the result is
\* 1 if the verbose flag is set and 0 otherwise.
C39_VerboseLevel ==
    verboseLevel # << >> =>
        /\ verboseLevel[1] \in Nat
        /\ envVerbose # << >> /\ IsNonNegativeInt(envVerbose)
              => verboseLevel[1] = NonNegativeIntValue(envVerbose)
        /\ envVerbose # << >> /\ ~IsNonNegativeInt(envVerbose) => verboseLevel[1] = 0
        /\ envVerbose = << >> => verboseLevel[1] = (IF verbose THEN 1 ELSE 0)

\* PRE_PUSH_VERBOSE=12 with -v given: the level is 12, not 1.
C39_Witness ==
    /\ envVerbose = <<"1", "2">>
    /\ verbose
    /\ verboseLevel = <<12>>

\* A negative and a non-numeric value with -v given: the level is 0.
C39_InvalidWitness ==
    /\ envVerbose \in {<<"-", "1">>, <<"1", "x">>, <<"2", "2", "2">>}
    /\ verbose
    /\ verboseLevel = <<0>>

----------------------------------------------------------------------------
(* The serial executeDAG, compared with executeDAGWithStreaming *)

\* The dag with each node's Dependencies as the slice topologicalSort ranges over.
DependencySlices(d) == [n \in DOMAIN d |-> [Dependencies |-> SortedSeq(d[n].Dependencies)]]

\* for _, nodeName := range order of executeDAG; st holds results, completed
\* and failed.  outcome[n] is the Status the runner of step n returns.
RECURSIVE executeDAGLoop(_, _, _, _, _)
executeDAGLoop(d, order, outcome, vt, st) ==
    IF order = << >> THEN st
    ELSE LET n    == Head(order)
             done == [st.completed EXCEPT ![n] = TRUE]
             next ==
                IF ~allDependenciesCompleted(d[n], st.completed) THEN st
                ELSE IF hasFailedDependency(d[n], st.failed)
                  THEN [st EXCEPT !.results = Append(@, [Name |-> n, Status |-> StatusSkipped]),
                                  !.completed = done]
                ELSE IF ~shouldExecuteStep(d[n], vt)
                  THEN [st EXCEPT !.results = Append(@, [Name |-> n, Status |-> StatusOK]),
                                  !.completed = done]
                ELSE [results   |-> Append(st.results, [Name |-> n, Status |-> outcome[n]]),
                      completed |-> done,
                      failed    |-> IF outcome[n] = StatusError
                                      THEN [st.failed EXCEPT ![n] = TRUE] ELSE st.failed]
         IN  executeDAGLoop(d, Tail(order), outcome, vt, next)

\* executeDAG(ctx, dag): the results of the serial executor, the range over
\* the dag map in topologicalSort visiting the nodes in mapOrder.
executeDAG(d, mapOrder, outcome, vt) ==
    executeDAGLoop(d, topologicalSort(DependencySlices(d), mapOrder), outcome, vt,
                   [results   |-> << >>,
                    completed |-> [n \in DOMAIN d |-> FALSE],
                    failed    |-> [n \in DOMAIN d |-> FALSE]]).results

\* The (step, status) pairs of a list of Results.
StatusPairs(rs) == {<<rs[i].Name, rs[i].Status>> : i \in DOMAIN rs}

\* The assignments of runner outcomes under which this run took place: every
\* step whose runner ran and whose Result was recorded returned that Status.
RunOutcomes ==
    {o \in [DOMAIN dag -> {StatusOK, StatusError}] :
        \A i \in DOMAIN results : results[i].Name \in ran => o[results[i].Name] = results[i].Status}

\* What the serial executor produces on the input of this run.
SerialPairs ==
    {StatusPairs(executeDAG(dag, order, o, getVersionType)) :
        o \in RunOutcomes, order \in Orders(DOMAIN dag)}

AllStepsRecorded == {results[i].Name : i \in DOMAIN results} = DOMAIN dag

\* C38, what holds: a streaming run that recorded a Result for every step,
\* none of them an ERROR (no write of failed for a read to race with),
\* produced the pairs of the serial executor.
C38_AgreeWhenAllRecorded ==
    RunEnded /\ AllStepsRecorded /\ ~hasErrors(results)
        => SerialPairs = {StatusPairs(results)}

\* C38 - for every acyclic stage and assignment of runner and gate outcomes,
\* the (step, status) pairs of executeDAGWithStreaming equal, in every
\* interleaving, those of the serial executeDAG on the same input.
C38_SerialStreamingAgree ==
    RunEnded => SerialPairs = {StatusPairs(results)}

====
